---- MODULE Spec2Model ----
(***************************************************************************)
(* A model of package render of go-seatbelt/seatbelt (src/render/render.go) *)
(* as a state machine: the template directory, the render cache r.tpls, the *)
(* parsed template objects the cache points to, the mutex r.mu, and a set   *)
(* of goroutines each running Render.HTML calls.                            *)
(*                                                                          *)
(* Strings that the code takes apart (paths, template names) are sequences  *)
(* of one-character strings, so that extractNameFromPath, filepath.Ext and  *)
(* filepath.HasPrefix are computed, not assumed.                            *)
(***************************************************************************)
EXTENDS Integers, Sequences, FiniteSets, TLC

\* ------------------------------------------------------------------ bounds

\* Number of goroutines that may be inside Render.HTML at the same time.
NProcs == 2
\* Total number of HTML calls started in one behaviour.
MaxCalls == 2
\* Number of changes made to the template directory after New returned.
MaxDiskOps == 1
\* Nesting depth of {{template}} calls followed by one execution.
MaxExecDepth == 3

Procs == 1..NProcs

\* ----------------------------------------------------------------- strings

DotHtml == <<".", "h", "t", "m", "l">>
DotTxt == <<".", "t", "x", "t">>
Layouts == <<"l", "a", "y", "o", "u", "t", "s">>
DefaultLayout == <<"l", "a", "y", "o", "u", "t">>
RootDir == <<".">>

\* strings.HasPrefix, which filepath.HasPrefix is on Unix.
HasPrefix(s, prefix) ==
    /\ Len(s) >= Len(prefix)
    /\ SubSeq(s, 1, Len(prefix)) = prefix

\* strings.Contains(s, c) for a one-character c.
Contains(s, c) == \E i \in 1..Len(s) : s[i] = c

\* filepath.Ext: the suffix beginning at the final dot in the final element
\* of path; empty if there is no dot.
Ext(path) ==
    LET stops == {i \in 1..Len(path) : path[i] = "." \/ path[i] = "/"}
        last == IF stops = {} THEN 0
                ELSE CHOOSE i \in stops : \A j \in stops : j <= i
    IN IF last > 0 /\ path[last] = "."
       THEN SubSeq(path, last, Len(path))
       ELSE <<>>

\* filepath.Base for a slash-separated, clean, non-empty path.
Base(path) ==
    LET slashes == {i \in 1..Len(path) : path[i] = "/"}
        last == IF slashes = {} THEN 0
                ELSE CHOOSE i \in slashes : \A j \in slashes : j <= i
    IN SubSeq(path, last + 1, Len(path))

\* filepath.Rel(rootDir, path) for the paths an fs.WalkDir of rootDir
\* produces: path is rootDir itself or lies below it.
Rel(rootDir, path) ==
    IF rootDir = RootDir THEN path
    ELSE IF path = rootDir THEN RootDir
    ELSE IF HasPrefix(path, rootDir \o <<"/">>)
         THEN SubSeq(path, Len(rootDir) + 2, Len(path))
         ELSE path

\* strings.Replace(name, `\`, "/", -1)
ReplaceBackslash(name) ==
    [i \in 1..Len(name) |-> IF name[i] = "\\" THEN "/" ELSE name[i]]

\* extractNameFromPath: the template name of a file, or a panic when the
\* file's extension is not .html.
extractNameFromPath(rootDir, path, replaceSlash) ==
    LET rel == Rel(rootDir, path)
        ext == IF Contains(rel, ".") THEN Ext(rel) ELSE <<>>
        name == SubSeq(rel, 1, Len(rel) - Len(ext))
    IN IF ext # DotHtml
       THEN [panic |-> TRUE, name |-> <<>>]
       ELSE [panic |-> FALSE,
             name |-> IF replaceSlash THEN ReplaceBackslash(name) ELSE name]

\* ------------------------------------------------- the template directory

LayoutsDir == Layouts
P_layout == Layouts \o <<"/">> \o DefaultLayout \o DotHtml
P_m == Layouts \o <<"/", "m">> \o DotHtml
P_a == <<"a">> \o DotHtml
P_c == <<"c">> \o DotTxt
P_db == <<"d", "/", "b">> \o DotHtml
P_lx == Layouts \o <<"x">> \o DotHtml

\* Every file the directory may hold, in the order fs.WalkDir visits them
\* (directory entries sorted by name, depth first).
WalkOrder == <<P_a, P_c, P_db, P_layout, P_m, P_lx>>
Files == {WalkOrder[i] : i \in 1..Len(WalkOrder)}

\* The directories under the root, and the paths there are.
P_d == <<"d">>
Dirs == {LayoutsDir, P_d}
Paths == Files \union Dirs

\* Template source: nodes are text, a function call without arguments
\* {{f}}, a function call with one argument {{g "x"}} or a template call
\* {{template "n" .}}; defs are the {{define}} blocks of the file.
Text(s) == [k |-> "text", v |-> s]
CallFn(f) == [k |-> "call", v |-> f]
CallArg(f) == [k |-> "callarg", v |-> f]
Tmpl(n) == [k |-> "tmpl", v |-> n]

N_content == <<"c">>
N_side == <<"s">>

NoDefs == [n \in {} |-> <<>>]

\* What a well-formed file at each path contains.
GoodSource(path) ==
    CASE path = P_layout ->
           [ok |-> TRUE,
            body |-> <<Text("<L>"), CallFn("token"), Tmpl(N_content), Text("</L>")>>,
            defs |-> NoDefs]
      [] path = P_m ->
           [ok |-> TRUE,
            body |-> <<Text("<M>"), Tmpl(N_side), Tmpl(N_content), Text("</M>")>>,
            defs |-> NoDefs]
      [] path = P_a ->
           [ok |-> TRUE, body |-> <<>>,
            defs |-> (N_content :> <<Text("A"), CallFn("f")>>) @@ (N_side :> <<Text("As")>>)]
      [] path = P_db ->
           [ok |-> TRUE, body |-> <<>>,
            defs |-> (N_content :> <<Text("B"), CallArg("g")>>)]
      [] path = P_lx ->
           [ok |-> TRUE, body |-> <<>>,
            defs |-> (N_content :> <<Text("X")>>)]
      [] OTHER ->
           [ok |-> TRUE, body |-> <<Text("?")>>, defs |-> NoDefs]

\* The names the two walks of parseTemplates derive from each path, and
\* each path's base name, each computed once.
LayoutNameOf == [p \in Files |-> extractNameFromPath(LayoutsDir, p, FALSE)]
RootNameOf == [p \in Files |-> extractNameFromPath(RootDir, p, TRUE)]
BaseOf == [p \in Files |-> Base(p)]
UnderLayoutsDir == {p \in Files : HasPrefix(p, LayoutsDir \o <<"/">>)}
SourceOf == [p \in Files |-> GoodSource(p)]

\* The directory each file is an entry of.
DirOf ==
    [p \in Files |-> IF p \in UnderLayoutsDir THEN LayoutsDir
                     ELSE IF p = P_db THEN P_d ELSE RootDir]

\* A file with malformed template syntax.
BadSource == [ok |-> FALSE, body |-> <<>>, defs |-> NoDefs]

\* The kinds of directory entry: "absent", "dir", a well-formed file
\* ("good") or a file html/template cannot parse ("bad").
Source(disk, path) == IF disk[path] = "bad" THEN BadSource ELSE SourceOf[path]

IsFile(disk, path) == disk[path] \in {"good", "bad"}

DiskOf(present) ==
    [p \in Paths |-> IF p = P_d
                     THEN (IF P_db \in present THEN "dir" ELSE "absent")
                     ELSE IF p \in present
                     THEN (IF p = LayoutsDir THEN "dir" ELSE "good")
                     ELSE "absent"]

\* The directory d with the template syntax of the file at p broken.
Broken(d, p) == [d EXCEPT ![p] = "bad"]

\* The directories New is given: two well-formed ones; one with a .txt
\* file; two with a file that does not parse; one without layouts/ and one
\* whose layouts/ is empty.
InitDisks ==
    { DiskOf({LayoutsDir, P_layout, P_a, P_db}),
      DiskOf({LayoutsDir, P_layout, P_m, P_a, P_lx}),
      DiskOf({LayoutsDir, P_layout, P_a, P_c}),
      Broken(DiskOf({LayoutsDir, P_layout, P_a, P_db}), P_db),
      Broken(DiskOf({LayoutsDir, P_layout, P_lx}), P_lx),
      DiskOf({P_a}),
      DiskOf({LayoutsDir, P_a}) }

\* ------------------------------------------------------- template objects

\* r.funcs: the contextual function-map factories the renderer was given,
\* each by the names of the functions it returns. token and f take no
\* argument, g takes one.
Factories == << {"token", "f"}, {"f", "g"} >>

\* fn(rw, req) of factory fi for the request of goroutine req: closures
\* bound to that request.
LiveFuncMap(fi, req) == [n \in Factories[fi] |-> [fac |-> fi, req |-> req]]

\* The placeholder func() struct{}: bound to no factory and no request, and
\* taking no argument whatever the function it stands for takes.
Noop == [fac |-> 0, req |-> 0]

\* The placeholder map parseTemplates builds from fn(nil, nil).
noopFuncMap ==
    [n \in UNION {Factories[fi] : fi \in 1..Len(Factories)} |-> Noop]

\* g's entries over f's.
Override(f, g) ==
    [x \in (DOMAIN f) \union (DOMAIN g) |-> IF x \in DOMAIN g THEN g[x] ELSE f[x]]

EmptySet == [n \in {} |-> <<>>]

\* template.New("layout").Funcs(noopFuncMap): a template object is its
\* name space of associated templates and its function table.
NewTemplate == [set |-> EmptySet, funcs |-> noopFuncMap]

\* The functions a node sequence calls.
CalledIn(body) ==
    {body[i].v : i \in {j \in 1..Len(body) : body[j].k \in {"call", "callarg"}}}

CalledBy(src) ==
    CalledIn(src.body) \union UNION {CalledIn(src.defs[n]) : n \in DOMAIN src.defs}

\* html/template's Parse accepts src for an object with these functions:
\* the syntax is well formed and every function called is defined.
Parses(obj, src) == src.ok /\ CalledBy(src) \subseteq DOMAIN obj.funcs

\* t.ParseFS(dirfs, path) on a file that parses: the file's top-level body
\* becomes the template named after the file's base name and each
\* {{define}} the template of that name. A template that exists is not
\* replaced by an empty one (text/template's associate).
ParseInto(obj, path, src) ==
    LET trees == Override(src.defs, (BaseOf[path] :> src.body))
        keep == {n \in DOMAIN trees : n \in DOMAIN obj.set /\ trees[n] = <<>>}
        added == [n \in (DOMAIN trees) \ keep |-> trees[n]]
    IN [obj EXCEPT !.set = Override(obj.set, added)]

\* The smallest address no live object has.
Fresh(heap) ==
    CHOOSE n \in 1..(Cardinality(DOMAIN heap) + 1) :
        /\ n \notin DOMAIN heap
        /\ \A m \in 1..(n - 1) : m \in DOMAIN heap

\* t.Clone(): a new object with a copy of t's name space and functions.
Clone(heap, id) ==
    LET c == Fresh(heap)
    IN [heap |-> Override(heap, (c :> heap[id])), id |-> c]

\* tpl.Funcs on clones that share one function table: the entries reach
\* every object.
TplFuncsShared(heap, id, funcMap) ==
    [o \in DOMAIN heap |-> [heap[o] EXCEPT !.funcs = Override(@, funcMap)]]

\* tpl.Funcs(funcMap): adds the map's entries to the object's function
\* table, replacing the entries of the same name.
TplFuncs(heap, id, funcMap) ==
    [heap EXCEPT ![id].funcs = Override(heap[id].funcs, funcMap)]

\* --------------------------------------------------------- parseTemplates

\* r.parseTemplates() reads the directory access by access: it lists a
\* directory or reads a file, and what it finds is the directory of that
\* moment. Its state between two accesses: the access it comes to next
\* (at), the entry of the walk it is at (i), the layouts the loop of line
\* 175 has still to yield for that entry (rest), layoutTplMap (ltm), the
\* addresses of basetpl and of the clone of line 142 (base, cl), the files
\* and directories the walk has been told of (list, dirs), the directories
\* it has read (read), its outcome so far (res) and r.tpls as it was when it
\* began (was); the heap and r.tpls as it has them.
NoRebuild ==
    [at |-> "idle", i |-> 0, rest |-> <<>>, ltm |-> EmptySet, base |-> 0, cl |-> 0,
     list |-> {}, dirs |-> {}, read |-> {}, res |-> "ok", was |-> EmptySet,
     heap |-> EmptySet, tpls |-> EmptySet]

\* Lines 89-123: r.tpls is made only when it is nil; basetpl gets the
\* placeholder functions before anything is parsed.
Begin(heap, tpls) ==
    LET b == Fresh(heap)
    IN [NoRebuild EXCEPT !.at = "layouts", !.base = b, !.was = tpls,
                         !.heap = Override(heap, (b :> NewTemplate)),
                         !.tpls = tpls]

\* parseTemplates returns, or panics.
End(st, res) == [st EXCEPT !.at = "end", !.res = res]

\* fs.WalkDir reads a directory it enters (fs.ReadDir) and calls the
\* callback for the entries that reading returned, in lexical order. The
\* callback gets the error of a directory that cannot be read and returns
\* it (lines 126-128 and 161-163).
ReadDir(st, d, dir) ==
    IF dir # RootDir /\ d[dir] # "dir"
    THEN [st EXCEPT !.res = "err"]
    ELSE [st EXCEPT
            !.list = @ \union {p \in Files : DirOf[p] = dir /\ IsFile(d, p)},
            !.dirs = @ \union (IF dir = RootDir THEN {q \in Dirs : d[q] = "dir"}
                               ELSE {}),
            !.read = @ \union {dir}]

\* The first walk (lines 125-157) from entry i on, as far as the next file
\* of layouts/ it was told of: the callback derives the layout's name and
\* comes to read the file. After the last entry the second walk begins.
RECURSIVE LayoutWalk(_, _)
LayoutWalk(st, i) ==
    IF i > Len(WalkOrder) THEN [st EXCEPT !.at = "root", !.i = 0]
    ELSE IF WalkOrder[i] \in st.list /\ WalkOrder[i] \in UnderLayoutsDir
    THEN IF LayoutNameOf[WalkOrder[i]].panic THEN End(st, "panic")
         ELSE [st EXCEPT !.at = "base", !.i = i]
    ELSE LayoutWalk(st, i + 1)

\* The first walk's callback for one entry of layouts/ (lines 125-155),
\* which reads the file twice: basetpl.ParseFS (line 136), then
\* clone.ParseFS on the clone of basetpl (line 147).
LayoutEntry(st, d) ==
    LET path == WalkOrder[st.i]
        e == LayoutNameOf[path]
        file == Layouts \o <<"/">> \o e.name \o DotHtml
        base == st.heap[st.base]
    IN IF st.at = "base"
       THEN IF ~IsFile(d, file) \/ ~Parses(base, Source(d, file))
            THEN End(st, "err")
            ELSE LET h1 == [st.heap EXCEPT ![st.base] =
                               ParseInto(base, file, Source(d, file))]
                     cl == Clone(h1, st.base)
                 IN [st EXCEPT !.heap = cl.heap, !.cl = cl.id, !.at = "clone"]
       ELSE IF ~IsFile(d, path) \/ ~Parses(st.heap[st.cl], Source(d, path))
            THEN End(st, "err")
            ELSE LayoutWalk([st EXCEPT
                               !.heap = [@ EXCEPT ![st.cl] =
                                           ParseInto(@, path, Source(d, path))],
                               !.ltm = Override(@, (e.name :> st.cl)),
                               !.cl = 0],
                            st.i + 1)

\* The sequences that hold each element of S once.
Perms(S) ==
    {s \in [1..Cardinality(S) -> S] :
        \A i \in DOMAIN s, j \in DOMAIN s : s[i] = s[j] => i = j}

\* The names a file of layouts/ can give a layout.
LayoutNames == {LayoutNameOf[p].name : p \in {q \in UnderLayoutsDir : ~LayoutNameOf[q].panic}}

\* The second walk (lines 160-196) from entry i on, as far as its next
\* access: a directory the root's listing held is read when the walk comes
\* to it; for a file it was told of the callback derives the name (lines
\* 169-173) and the loop of line 175 comes to read the file for the first
\* layout the range yields. `range layoutTplMap` yields the keys of a Go map
\* in an order the runtime chooses anew for every range statement: any
\* order of the map's keys. After the last entry parseTemplates returns
\* nil. The states the walk can be in by then.
RECURSIVE RootWalk(_, _)
RootWalk(st, i) ==
    IF i > Len(WalkOrder) THEN {End(st, "ok")}
    ELSE LET path == WalkOrder[i]
             e == RootNameOf[path]
         IN IF DirOf[path] \in st.dirs \ st.read
            THEN {[st EXCEPT !.at = "dir", !.i = i]}
            ELSE IF path \notin st.list THEN RootWalk(st, i + 1)
            ELSE IF e.panic THEN {End(st, "panic")}
            ELSE IF HasPrefix(e.name, Layouts) \/ DOMAIN st.ltm = {}
            THEN RootWalk(st, i + 1)
            ELSE {[st EXCEPT !.at = "file", !.i = i, !.rest = order] :
                     order \in Perms(DOMAIN st.ltm)}

\* One turn of the loop over layoutTplMap for one content file (lines
\* 175-193): the layout is cloned, the file is read into the clone (line
\* 181) and the clone is written to r.tpls (lines 187 and 189).
Compose(st, d) ==
    LET path == WalkOrder[st.i]
        name == RootNameOf[path].name
        layoutName == Head(st.rest)
        cl == Clone(st.heap, st.ltm[layoutName])
        src == Source(d, path)
    IN IF ~IsFile(d, path) \/ ~Parses(cl.heap[cl.id], src)
       THEN {End([st EXCEPT !.heap = cl.heap], "err")}
       ELSE LET h2 == [cl.heap EXCEPT ![cl.id] = ParseInto(cl.heap[cl.id], path, src)]
                m == IF layoutName \in DOMAIN st.tpls
                     THEN Override(st.tpls[layoutName], (name :> cl.id))
                     ELSE (name :> cl.id)
                s2 == [st EXCEPT !.heap = h2,
                                 !.tpls = Override(st.tpls, (layoutName :> m)),
                                 !.rest = Tail(@)]
            IN IF s2.rest = <<>> THEN RootWalk(s2, st.i + 1) ELSE {s2}

\* r.parseTemplates() from one access of the directory to the next: the
\* access it was at, on the directory d as it is now, and what follows as
\* far as the next access or the return. The states it can be in then.
Step(st, d) ==
    CASE st.at = "layouts" ->
           LET s == ReadDir(st, d, LayoutsDir)
           IN IF s.res # "ok" THEN {End(s, "err")} ELSE {LayoutWalk(s, 1)}
      [] st.at \in {"base", "clone"} -> {LayoutEntry(st, d)}
      [] st.at = "root" ->
           RootWalk(ReadDir([st EXCEPT !.list = {}, !.read = {}], d, RootDir), 1)
      [] st.at = "dir" ->
           LET s == ReadDir(st, d, DirOf[WalkOrder[st.i]])
           IN IF s.res # "ok" THEN {End(s, "err")} ELSE RootWalk(s, st.i)
      [] st.at = "file" -> Compose(st, d)

\* r.parseTemplates() from the state st to its return, on a directory
\* nobody changes meanwhile.
RECURSIVE ToEnd(_, _)
ToEnd(st, d) ==
    IF st.at = "end" THEN {st} ELSE UNION {ToEnd(s, d) : s \in Step(st, d)}

\* r.parseTemplates() on a directory nobody changes meanwhile, with
\* r.tpls = tpls: the cache it leaves, the heap, and whether it returned nil
\* ("ok"), returned an error ("err") or panicked ("panic").
parseTemplates(disk, heap, tpls) ==
    {[heap |-> s.heap, tpls |-> s.tpls, res |-> s.res] :
        s \in ToEnd(Begin(heap, tpls), disk)}

\* The objects a parseTemplates refers to by its locals.
Locals(st) == ({st.base, st.cl} \union {st.ltm[l] : l \in DOMAIN st.ltm}) \ {0}

\* The values r.tpls goes through from the state st of a parseTemplates
\* on: the cache as it is, and the cache after each write still to come.
RECURSIVE Caches(_, _)
Caches(st, d) ==
    {st.tpls} \union
    (IF st.at = "end" THEN {} ELSE UNION {Caches(s, d) : s \in Step(st, d)})

\* The objects some reference still reaches: Go's collector frees the rest.
Collect(heap, cache, held) ==
    LET live == held \union
                UNION {{cache[l][n] : n \in DOMAIN cache[l]} : l \in DOMAIN cache}
    IN [id \in (DOMAIN heap) \cap live |-> heap[id]]


\* -------------------------------------------------------------- execution

\* What execution writes: the text of a text node, or the result of a
\* function: the placeholder prints "{}", a live function the token of the
\* request it was made for.
TextAtom(s) == [t |-> s, fn |-> "", fac |-> 0, req |-> 0]
FuncAtom(f, impl) ==
    IF impl = Noop THEN TextAtom("{}")
    ELSE [t |-> "fn", fn |-> f, fac |-> impl.fac, req |-> impl.req]

\* html/template escapes a template before its first execution and fails
\* when a {{template}} call names a template the name space does not hold.
RECURSIVE Escapes(_, _, _)
Escapes(obj, body, depth) ==
    \A j \in 1..Len(body) :
        body[j].k = "tmpl" =>
            /\ depth < MaxExecDepth
            /\ body[j].v \in DOMAIN obj.set
            /\ Escapes(obj, obj.set[body[j].v], depth + 1)

\* The nodes execution goes through, in order: the node sequence with each
\* {{template}} call replaced by the nodes of the template it names. The
\* name space of a cached object does not change once it is cached.
RECURSIVE Flat(_, _, _)
Flat(obj, body, j) ==
    IF j > Len(body) THEN <<>>
    ELSE (IF body[j].k = "tmpl" THEN Flat(obj, obj.set[body[j].v], 1)
          ELSE <<body[j]>>) \o Flat(obj, body, j + 1)

\* The text nodes a node sequence starts with.
RECURSIVE LeadText(_)
LeadText(prog) ==
    IF prog = <<>> \/ prog[1].k # "text" THEN <<>>
    ELSE <<TextAtom(prog[1].v)>> \o LeadText(Tail(prog))

\* Execution from one function call to the next: text/template looks a
\* function up in the object's table when it reaches the call (under
\* muFuncs.RLock, released after the lookup), so this much of an execution
\* sees one table: the text up to the next call, the call, and the text
\* after it. A call with an argument of a function that takes none (the
\* placeholder) stops execution there: what was written stays written.
ExecStep(obj, prog) ==
    LET before == LeadText(prog)
        at == Len(before) + 1
    IN IF at > Len(prog) THEN [out |-> before, rest |-> <<>>, ok |-> TRUE]
       ELSE LET node == prog[at]
                impl == obj.funcs[node.v]
                tail == SubSeq(prog, at + 1, Len(prog))
                after == LeadText(tail)
            IN IF node.k = "callarg" /\ impl = Noop
               THEN [out |-> before, rest |-> <<>>, ok |-> FALSE]
               ELSE [out |-> before \o <<FuncAtom(node.v, impl)>> \o after,
                     rest |-> SubSeq(tail, Len(after) + 1, Len(tail)),
                     ok |-> TRUE]

\* tpl.ExecuteTemplate(b, name, data) up to its first node: the error when
\* the template is undefined or cannot be escaped, else the nodes to
\* execute.
ExecStart(obj, name) ==
    IF name \notin DOMAIN obj.set
    THEN [ok |-> FALSE, prog |-> <<>>, err |-> "undefined"]
    ELSE IF ~Escapes(obj, obj.set[name], 0)
    THEN [ok |-> FALSE, prog |-> <<>>, err |-> "no such template"]
    ELSE [ok |-> TRUE, prog |-> Flat(obj, obj.set[name], 1), err |-> ""]

\* The steps of an execution during which the function table stays as it
\* is.
RECURSIVE ExecAll(_, _)
ExecAll(obj, prog) ==
    LET s == ExecStep(obj, prog)
    IN IF ~s.ok \/ s.rest = <<>> THEN [out |-> s.out, ok |-> s.ok]
       ELSE LET r == ExecAll(obj, s.rest)
            IN [out |-> s.out \o r.out, ok |-> r.ok]

\* tpl.ExecuteTemplate(b, name, data) with no tpl.Funcs on the object
\* during it: the bytes written to b, and the error when the template is
\* undefined, cannot be escaped, or stops part way.
ExecuteTemplate(obj, name) ==
    LET s == ExecStart(obj, name)
    IN IF ~s.ok THEN [ok |-> FALSE, out |-> <<>>, err |-> s.err]
       ELSE LET r == ExecAll(obj, s.prog)
            IN [ok |-> r.ok, out |-> r.out,
                err |-> IF r.ok THEN "" ELSE "wrong number of args"]

\* ---------------------------------------------------------------- session

\* The session calls made on the requests of one browser.
MaxSessionOps == 4

\* The keys and values handlers use. A value of a type that is not
\* registered with gob cannot be encoded.
DataKeys == {"key", "key2"}
FlashKeys == {"flash1", "flash2"}
Unregistered == "unregistered"
Values == {"value1", Unregistered}
\* What reading a key a map does not hold gives.
Nil == "nil"

\* A Go map: nil or made, and its entries.
NilMap == [isNil |-> TRUE, kv |-> EmptySet]
MakeMap == [isNil |-> FALSE, kv |-> EmptySet]

\* m[k]
MapGet(m, k) == IF k \in DOMAIN m.kv THEN m.kv[k] ELSE Nil
\* m[k] = v, which panics on a nil map.
MapSet(m, k, v) ==
    IF m.isNil THEN [ok |-> FALSE, m |-> m]
    ELSE [ok |-> TRUE, m |-> [m EXCEPT !.kv = Override(@, (k :> v))]]
\* delete(m, k)
MapDelete(m, k) == [m EXCEPT !.kv = [x \in (DOMAIN @) \ {k} |-> @[x]]]

\* &session{}
ZeroSession == [Data |-> NilMap, Flashes |-> NilMap]

\* (*session).init
init(ss) ==
    [Data |-> IF ss.Data.isNil THEN MakeMap ELSE ss.Data,
     Flashes |-> IF ss.Flashes.isNil THEN MakeMap ELSE ss.Flashes]

\* gob leaves a nil map out of the encoding and sends a made one, empty or
\* not.
Gob(ss) ==
    [f \in {g \in {"Data", "Flashes"} : ~ss[g].isNil} |-> ss[f].kv]

\* s.sc.Encode(name, session): the signed gob encoding, or an error when a
\* value cannot be encoded.
Encode(ss) ==
    [ok |-> \A f \in DOMAIN Gob(ss) :
               \A k \in DOMAIN Gob(ss)[f] : Gob(ss)[f][k] # Unregistered,
     val |-> [signed |-> TRUE, gob |-> Gob(ss)]]

\* s.sc.Decode(name, value, ss) into a zero session: an error when the
\* signature does not verify; else the fields the encoding holds are set.
Decode(value) ==
    IF ~value.signed THEN [ok |-> FALSE, ss |-> ZeroSession]
    ELSE [ok |-> TRUE,
          ss |-> [f \in {"Data", "Flashes"} |->
                    IF f \in DOMAIN value.gob
                    THEN [isNil |-> FALSE, kv |-> value.gob[f]]
                    ELSE NilMap]]

\* The session cookie a request carries, if any.
NoCookie == [present |-> FALSE, val |-> [signed |-> FALSE, gob |-> EmptySet]]
CookieOf(value) == [present |-> TRUE, val |-> value]

\* fromReq without the calls of ss.init().
fromReqUninit(q) ==
    IF q.ctx.set THEN q.ctx.val
    ELSE IF ~q.cookie.present THEN ZeroSession
    ELSE Decode(q.cookie.val).ss

\* s.fromReq(r): the session of the request's context when it has one,
\* else the session decoded from the cookie, else a new one.
fromReq(q) ==
    IF q.ctx.set THEN q.ctx.val
    ELSE IF ~q.cookie.present THEN init(ZeroSession)
    ELSE LET d == Decode(q.cookie.val)
         IN IF ~d.ok THEN init(d.ss) ELSE d.ss

\* s.saveCtx(w, r, session): the session goes into the request's context
\* and, when it can be encoded, into a Set-Cookie header of the response.
saveCtx(q, ss) ==
    LET encoded == Encode(ss)
    IN [q EXCEPT !.ctx = [set |-> TRUE, val |-> ss],
                 !.setCookies = IF encoded.ok THEN Append(@, encoded.val) ELSE @]

\* A request with the given cookie, nothing done on it yet. pending is the
\* flashes added and not read since.
NewRequest(cookie) ==
    LET q == [cookie |-> cookie, ctx |-> [set |-> FALSE, val |-> ZeroSession],
              setCookies |-> <<>>, log |-> <<>>, pending |-> EmptySet, ops |-> 0]
    IN [q EXCEPT !.pending = fromReq(q).Flashes.kv]

\* No session in use.
NoSession == NewRequest(NoCookie)

\* The cookies a first request comes with: none, one whose signature does
\* not verify, and the cookies earlier responses set. Every session saveCtx
\* encodes has both maps made (init, Reset and Flashes make them).
InitCookies ==
    { NoCookie,
      CookieOf([signed |-> FALSE, gob |-> EmptySet]),
      CookieOf(Encode(init(ZeroSession)).val),
      CookieOf(Encode([Data |-> [isNil |-> FALSE, kv |-> ("key" :> "value1")],
                       Flashes |-> [isNil |-> FALSE, kv |-> ("flash1" :> "value1")]]).val) }

\* ------------------------------------------- request-scoped values (Context)

\* The Render calls made on one request.
MaxRenders == 2

\* The two iterations of the application context: type Context of
\* seatbelt.go, which keeps the values in a map of its own, and type context
\* of the later seatbelt.go, which keeps them with package values.
Builds == {"Context", "context"}

ValueKeys == {"title", "user"}
\* What SetValue is called with, and the data arguments handlers give Render.
ScopedValues == {"r"}
ArgData ==
    { NilMap, MakeMap,
      [isNil |-> FALSE, kv |-> ("title" :> "d")],
      [isNil |-> FALSE, kv |-> ("title" :> "d") @@ ("user" :> "d")] }

\* (*Context).mergeValues: data, with the values under the keys data lacks.
mergeValues(scoped, data) ==
    IF scoped.isNil THEN data
    ELSE IF data.isNil THEN scoped
    ELSE [isNil |-> FALSE, kv |-> Override(scoped.kv, data.kv)]

\* mergeMaps(m1, m2): m1, with the entries of m2 under the keys m1 lacks.
mergeMaps(m1, m2) ==
    IF m1.isNil THEN m2
    ELSE IF m2.isNil THEN m1
    ELSE [isNil |-> FALSE, kv |-> Override(m2.kv, m1.kv)]

\* (*Values).values: the map saved on the request, made when there is none.
values(saved) == IF saved.isNil THEN MakeMap ELSE saved

\* A context serveContext has just made: no values, nothing rendered.
NewContext(build) ==
    [build |-> build, values |-> NilMap, data |-> NilMap, passed |-> NilMap,
     renders |-> 0]

\* ------------------------------------------------------------ package values

\* The bags made from one request, and the calls made on them.
MaxBags == 2
MaxValueOps == 4

\* What Values.Set is called with.
BagValues == {"value", "other"}

\* A request as package values sees it: the map its context holds under
\* valueskey, NilMap when it holds none. save gives the bag a copy of the
\* request (r.WithContext), so the request New was called with keeps the
\* context it came with, and a map is reachable from one bag only.
NewValues == [r |-> NilMap, bags |-> <<>>, log |-> <<>>]

\* (*Values).save after (*Values).values: v.r holds the map values returned.
save(saved) == values(saved)

\* ---------------------------------------------------- middleware (App.Use)

\* The middleware an application registers and the requests it serves.
MaxMiddlewares == 2
MaxRequests == 2

\* The middleware functions: each runs its code, calls the handler it was
\* given, and runs its code again when that returns.
Middlewares == {"m1", "m2"}

\* What Use can be called with.
UseArgs == {<<m>> : m \in Middlewares} \union (Middlewares \X Middlewares)

\* A handler function: the route's handler wrapped in the middleware of
\* chain, the first outermost.
BareHandler == <<>>

\* middleware(handle)
Wrap(m, handle) == <<m>> \o handle

Event(m, at) == [m |-> m, at |-> at]

\* handle(c): what runs, in order.
RECURSIVE Run(_)
Run(handle) ==
    IF handle = <<>> THEN <<Event("", "handler")>>
    ELSE <<Event(Head(handle), "before")>> \o Run(Tail(handle))
            \o <<Event(Head(handle), "after")>>

\* The loop of serveContext taken from the first registered middleware on.
RECURSIVE WrapForward(_, _, _)
WrapForward(handle, middlewares, i) ==
    IF i < 1 THEN handle
    ELSE WrapForward(Wrap(middlewares[Len(middlewares) + 1 - i], handle),
                     middlewares, i - 1)

\* The loop of serveContext: for i := len(a.middlewares) - 1; i >= 0; i--.
RECURSIVE WrapAll(_, _, _)
WrapAll(handle, middlewares, i) ==
    IF i < 1 THEN handle
    ELSE WrapAll(Wrap(middlewares[i], handle), middlewares, i - 1)

\* An application New has just returned: no middleware, the route's handler
\* as it was registered, no request served.
NewApp ==
    [middlewares |-> <<>>, route |-> BareHandler, served |-> <<>>,
     trace |-> <<>>, requests |-> 0]

\* ------------------------------------------------ the signing key (Option)

\* The SECRET environment variable, the master.key file and the SigningKey
\* option an application can start with; "" is unset, absent, not given.
EnvSecrets == {"", "envkey"}
KeyFiles == {"", "filekey"}
SigningKeys == {"", "optkey"}
\* What rand.Read can give.
RandomKeys == {"random1", "random2"}

\* An Option before setDefaults.
NewOption(secret, file, signingKey) ==
    [SECRET |-> secret, file |-> file, SigningKey |-> signingKey,
     given |-> signingKey, file0 |-> file, set |-> FALSE]

\* (*Option).setMasterKey, with the key rand.Read gives.
setMasterKey(o, random) ==
    LET o1 == IF o.SECRET # "" THEN [o EXCEPT !.SigningKey = o.SECRET] ELSE o
    IN IF o1.file # "" THEN [o1 EXCEPT !.SigningKey = o1.file]
       ELSE [o1 EXCEPT !.file = random, !.SigningKey = random]

\* ------------------------------------------------------- package handler

\* The request methods.
Methods == {"GET", "HEAD", "POST", "PUT", "PATCH", "DELETE", "OPTIONS",
            "CONNECT", "TRACE"}

StatusOK == 200
StatusFound == 302
StatusSeeOther == 303
StatusInternalServerError == 500

\* The Content-Type header of a request: none, a JSON body, a form body.
ContentTypes == {"", "application/json", "application/x-www-form-urlencoded"}

\* The value each source gives the parameter "name", as a string of
\* characters; <<>> where the source does not give the parameter.
Absent == <<>>
QueryValues == {Absent, <<"q">>}
BodyValues == {Absent, <<"b">>}
PathValues == {Absent, <<"p">>}

\* A request to Params: its method and Content-Type and the value of the
\* parameter in the URL query, in the body and in the route's path. A
\* request can come with no body at all (empty), and then its body does not
\* give the parameter.
ParamsRequests ==
    {r \in [method : Methods \ {"CONNECT", "TRACE"}, ctype : ContentTypes,
            query : QueryValues, body : BodyValues, path : PathValues,
            empty : BOOLEAN] :
        r.empty => r.body = Absent}

\* r.ParseForm(): r.Form[name] holds the values of a form body, which is
\* read for POST, PUT and PATCH, followed by those of the URL query.
ParseForm(r) ==
    LET post == IF /\ r.method \in {"POST", "PUT", "PATCH"}
                   /\ r.ctype = "application/x-www-form-urlencoded"
                   /\ r.body # Absent
                THEN <<r.body>> ELSE <<>>
        query == IF r.query # Absent THEN <<r.query>> ELSE <<>>
    IN post \o query

\* strings.Join(val, "")
RECURSIVE Join(_)
Join(val) == IF val = <<>> THEN <<>> ELSE Head(val) \o Join(Tail(val))

\* Params(w, r, pathParamFunc, v): the error it returns and the value
\* v.Name is given, Absent when the map decoded into v has no entry for it.
\* The body of a POST, PUT, PATCH or DELETE request with Content-Type
\* application/json is decoded as JSON: with no body the decoder returns
\* io.EOF and Params returns it before the path parameters are read and
\* before anything is decoded into v.
Params(r) ==
    LET form == ParseForm(r)
        joined == IF form = <<>> THEN Absent ELSE Join(form)
        decodes == /\ r.method \in {"POST", "PUT", "PATCH", "DELETE"}
                   /\ r.ctype = "application/json"
        json == IF decodes /\ r.body # Absent THEN r.body ELSE joined
    IN IF decodes /\ r.empty THEN [err |-> "EOF", name |-> Absent]
       ELSE [err |-> "", name |-> IF r.path # Absent THEN r.path ELSE json]

\* Redirect(w, r, url): the status code of the response.
Redirect(method) ==
    IF method \in {"POST", "PUT", "PATCH", "DELETE"} THEN StatusSeeOther
    ELSE StatusFound

\* No call of the package made.
NoCall ==
    [op |-> "", r |-> [method |-> "GET", ctype |-> "", query |-> Absent,
                       body |-> Absent, path |-> Absent, empty |-> TRUE],
     err |-> "", name |-> Absent, code |-> 0]

\* ------------------------------------------------- package server (Turbolinks)

\* The requests one browser makes.
MaxVisits == 3

\* URL paths, as strings of characters: where handlers redirect to, and
\* what the browser requests.
Locations == {<<"/", "x">>, <<"/", "a", "/", "b">>, <<"/", "<">>}
NoLocation == <<>>
URLs == Locations \union {<<"/">>}

\* template.JSEscapeString(location)
RECURSIVE JSEscapeString(_)
JSEscapeString(str) ==
    IF str = <<>> THEN <<>>
    ELSE (IF Head(str) = "<" THEN <<"\\u003C">> ELSE <<Head(str)>>)
           \o JSEscapeString(Tail(str))

\* What is written to a response body.
Chunk(k, loc) == [k |-> k, loc |-> loc]

\* The header of a response, and a response writer of the server: the
\* header a handler can still change, and the status, header and body that
\* were sent.
NoHeader ==
    [ctype |-> "", location |-> NoLocation, tlLocation |-> NoLocation,
     nosniff |-> FALSE, setCookies |-> <<>>]
NewWriter ==
    [header |-> NoHeader, wrote |-> FALSE, code |-> 0, sent |-> NoHeader,
     body |-> <<>>, panicked |-> FALSE]

\* w.WriteHeader(code) of the server's writer: the header is sent as it is
\* now; a code that is not a status code panics.
w_WriteHeader(w, code) ==
    IF w.wrote THEN w
    ELSE IF code < 100 THEN [w EXCEPT !.panicked = TRUE]
    ELSE [w EXCEPT !.wrote = TRUE, !.code = code, !.sent = w.header]

\* w.Write(b) of the server's writer.
w_Write(w, chunks) ==
    [w_WriteHeader(w, StatusOK) EXCEPT !.body = @ \o chunks]

\* The writer a handler is given: the server's writer itself, or a
\* responseStaller{w, 0, buf} around it.
Direct(w) == [w |-> w, stalled |-> FALSE, code |-> 0, buf |-> <<>>]
responseStaller(w) == [w |-> w, stalled |-> TRUE, code |-> 0, buf |-> <<>>]

\* rw.WriteHeader(code)
rw_WriteHeader(rw, code) ==
    IF rw.stalled THEN [rw EXCEPT !.code = code]
    ELSE [rw EXCEPT !.w = w_WriteHeader(@, code)]

\* rw.Write(b)
rw_Write(rw, chunk) ==
    IF rw.stalled THEN [rw EXCEPT !.buf = Append(@, chunk)]
    ELSE [rw EXCEPT !.w = w_Write(@, <<chunk>>)]

\* http.SetCookie(rw, cookie): one more Set-Cookie line in rw.Header().
Cookie(value, path, maxAge) == [value |-> value, path |-> path, maxAge |-> maxAge]
SetCookie(rw, cookie) == [rw EXCEPT !.w.header.setCookies = Append(@, cookie)]

\* rs.SendResponse()
SendResponse(rs) ==
    LET w == w_WriteHeader(rs.w, rs.code)
    IN IF w.panicked \/ rs.buf = <<>> THEN w ELSE w_Write(w, rs.buf)

\* The handlers Turbolinks wraps: one that sets the status and writes a
\* page, one that only writes a page, one that calls Redirect(w, r, loc), and
\* one that answers 201 Created with a Location header and a body.
StatusCreated == 201
Handlers ==
    {[kind |-> "page", loc |-> NoLocation], [kind |-> "plain", loc |-> NoLocation]}
    \union [kind : {"redirect", "created"}, loc : Locations]

\* http.Redirect(rw, r, url, code)
http_Redirect(rw, r, url, code) ==
    LET hadCT == rw.w.header.ctype # ""
        rw1 == [rw EXCEPT !.w.header.location = url]
        rw2 == IF ~hadCT /\ r.method \in {"GET", "HEAD"}
               THEN [rw1 EXCEPT !.w.header.ctype = "text/html; charset=utf-8"]
               ELSE rw1
        rw3 == rw_WriteHeader(rw2, code)
    IN IF ~hadCT /\ r.method = "GET" THEN rw_Write(rw3, Chunk("link", url))
       ELSE rw3

\* h.ServeHTTP(rw, r)
ServeHTTP(h, rw, r) ==
    CASE h.kind = "page" -> rw_Write(rw_WriteHeader(rw, StatusOK), Chunk("html", NoLocation))
      [] h.kind = "plain" -> rw_Write(rw, Chunk("html", NoLocation))
      [] h.kind = "redirect" -> http_Redirect(rw, r, h.loc, Redirect(r.method))
      [] h.kind = "created" ->
           rw_Write(rw_WriteHeader([rw EXCEPT !.w.header.location = h.loc],
                                   StatusCreated),
                    Chunk("json", NoLocation))

\* The POST branch of Turbolinks(h), after h.ServeHTTP(rs, r).
TurbolinksPost(rs1) ==
    IF rs1.w.header.location # NoLocation
    THEN LET location == rs1.w.header.location
             rs2 == [rs1 EXCEPT !.w.header.ctype = "text/javascript",
                                !.w.header.nosniff = TRUE,
                                !.code = StatusOK,
                                !.w.header.location = NoLocation]
         IN SendResponse(rw_Write(rs2, Chunk("js", JSEscapeString(location))))
    ELSE SendResponse(rs1)

\* Turbolinks(h).ServeHTTP(w, r) for a new writer w: the writer when it
\* returns.
Turbolinks(h, r) ==
    IF ~r.turbolinks THEN ServeHTTP(h, Direct(NewWriter), r).w
    ELSE IF r.method = "POST"
    THEN TurbolinksPost(ServeHTTP(h, responseStaller(NewWriter), r))
    ELSE LET w1 == IF r.cookie # NoLocation
                   THEN SetCookie(
                          Direct([NewWriter EXCEPT !.header.tlLocation = r.cookie]),
                          Cookie(r.cookie, <<>>, -1)).w
                   ELSE NewWriter
             rs1 == ServeHTTP(h, responseStaller(w1), r)
             rs2 == IF rs1.w.header.location # NoLocation
                    THEN SetCookie(rs1, Cookie(rs1.w.header.location, <<"/">>, 0))
                    ELSE rs1
         IN SendResponse(rs2)

\* The browser's cookies named _turbolinks_location: path -> value. A
\* cookie set without a Path gets the default path of the request's URL,
\* and one set with a negative MaxAge removes the cookie of its path.
RECURSIVE LastSlash(_)
LastSlash(url) ==
    IF url = <<>> \/ url[Len(url)] = "/" THEN Len(url)
    ELSE LastSlash(SubSeq(url, 1, Len(url) - 1))

DefaultPath(url) ==
    IF LastSlash(url) <= 1 THEN <<"/">> ELSE SubSeq(url, 1, LastSlash(url) - 1)

PathMatch(cookiePath, url) ==
    \/ cookiePath = url
    \/ /\ HasPrefix(url, cookiePath)
       /\ cookiePath[Len(cookiePath)] = "/" \/ url[Len(cookiePath) + 1] = "/"

Store(jar, url, cookie) ==
    LET path == IF cookie.path = <<>> THEN DefaultPath(url) ELSE cookie.path
    IN IF cookie.maxAge < 0 THEN [p \in (DOMAIN jar) \ {path} |-> jar[p]]
       ELSE Override(jar, (path :> cookie.value))

RECURSIVE StoreAll(_, _, _)
StoreAll(jar, url, cookies) ==
    IF cookies = <<>> THEN jar
    ELSE StoreAll(Store(jar, url, Head(cookies)), url, Tail(cookies))

\* r.Cookie(TurbolinksCookie) for a request to url: the browser sends the
\* cookies whose path matches, the longest path first.
CookieFor(jar, url) ==
    LET sent == {p \in DOMAIN jar : PathMatch(p, url)}
    IN IF sent = {} THEN NoLocation
       ELSE jar[CHOOSE p \in sent : \A q \in sent : Len(q) <= Len(p)]

\* A browser that has made no request.
NewBrowser ==
    [jar |-> EmptySet,
     r |-> [method |-> "GET", turbolinks |-> FALSE, url |-> <<"/">>,
            cookie |-> NoLocation, h |-> [kind |-> "page", loc |-> NoLocation]],
     w |-> NewWriter, n |-> 0]

\* ------------------------------------------------------------------ state

VARIABLES
    reload,   \* r.reload
    disk,     \* the template directory r.dir: path -> kind of entry
    disk0,    \* the directory as it was when New built the cache
    diskOps,  \* changes made to the directory so far, of the MaxDiskOps
              \* there can be; MaxDiskOps where nobody changes it
    tpls,     \* r.tpls: layout name -> content name -> address of a template
    heap,     \* the template objects: address -> object
    mu,       \* r.mu: 0 when free, else the goroutine that locked it
    calls,    \* HTML calls started so far
    rebuild,  \* the parseTemplates in progress, between two of its accesses
              \* of the directory
    seen,     \* for each layout, the function tables its entry of a.html was
              \* rendered with so far: 0 the placeholders, i the live
              \* functions of goroutine i's request
    pc,       \* where each goroutine is in Render.HTML
    fr,       \* the arguments and locals of each goroutine's HTML call; opt
              \* is the StatusCode the caller gave, solo records that no
              \* other call has been in progress during it
    resp,     \* what each goroutine's writer has received
    bp,       \* r.pool: the buffers in the pool, and the bytes each buffer
              \* held when it was last put there
    sess,     \* one browser's session: the request in hand, its response
    cx,       \* one request's Context: its values, and the data argument of
              \* the last Render with the map it handed to the renderer
    app,      \* the App: a.middlewares, the handler of its route, and what
              \* ran on the last request
    option,   \* the Option of New, with the environment and master.key
    hd,       \* the last call of package handler: its request and result
    tl,       \* one browser behind Turbolinks(h): its cookies, its last
              \* request and the response to it
    vb        \* one request and the value bags made from it with values.New

renderVars == <<reload, disk, disk0, diskOps, tpls, heap, mu, calls, rebuild, seen,
               pc, fr, resp, bp>>
otherVars == <<cx, app, option, hd, tl, vb>>
vars == <<renderVars, sess, otherVars>>

notApp == <<renderVars, sess, hd, tl, vb>>
notHandler == <<renderVars, sess, cx, app, option, tl, vb>>
notServer == <<renderVars, sess, cx, app, option, hd, vb>>
notValues == <<renderVars, sess, cx, app, option, hd, tl>>

\* Nothing but the renderer and the session in use.
OthersIdle ==
    /\ cx = NewContext("Context")
    /\ app = NewApp
    /\ option = NewOption("", "", "optkey")
    /\ hd = NoCall
    /\ tl = NewBrowser
    /\ vb = NewValues

N_a == <<"a">>
N_db == <<"d", "/", "b">>
N_lx == Layouts \o <<"x">>
N_m == <<"m">>

\* The arguments HTML is called with.
ArgNames == {N_a, N_db}
\* The RenderOptions: none, or another layout with another status code.
ArgOpts == {[code |-> 0, layout |-> <<>>],
            [code |-> 201, layout |-> N_m]}
\* The writer is an http.ResponseWriter or not; the request is nil or not.
ArgWriters == {[isRW |-> TRUE, req |-> TRUE],
               [isRW |-> TRUE, req |-> FALSE],
               [isRW |-> FALSE, req |-> FALSE]}

NoFrame == [name |-> <<>>, layout |-> <<>>, opt |-> 0, code |-> 0, isRW |-> FALSE,
            req |-> FALSE, tpl |-> 0, fi |-> 0, b |-> <<>>, err |-> "",
            solo |-> FALSE, buf |-> 0, drained |-> FALSE, prog |-> <<>>]

\* The buffers r.pool can hold or make: one for each goroutine at most is in
\* use at a time.
Bufs == 1..NProcs

\* sync.Pool{New: ...} of New: no buffer in it.
NewPool == [free |-> {}, left |-> [id \in Bufs |-> <<>>]]

\* The buffers the calls in progress hold.
InUse == {fr[j].buf : j \in Procs} \ {0}

\* r.pool.Get(): any buffer of the pool, which leaves the pool, or a new
\* one from the pool's New function.
pool_Get(p, inUse) ==
    LET unused == Bufs \ (p.free \cup inUse)
    IN p.free \cup
       (IF unused = {} THEN {} ELSE {CHOOSE id \in unused : \A o \in unused : id <= o})

\* b.Reset() that keeps the bytes of the buffer.
b_ResetNone(bytes) == bytes

\* b.Reset()
b_Reset(bytes) == <<>>

\* r.pool.Put(b)
pool_Put(p, id, bytes) ==
    [free |-> p.free \cup {id}, left |-> [p.left EXCEPT ![id] = bytes]]
NoResp == [ctype |-> "", status |-> 0, body |-> <<>>]

\* New(o): New returns the renderer only if the first parseTemplates
\* returned nil; when it returned an error or panicked, New panics and
\* there is no renderer to call ("fatal").
New(dir) ==
    /\ disk = dir
    /\ disk0 = disk
    /\ \E r \in parseTemplates(disk, EmptySet, EmptySet) :
          IF r.res = "ok"
          THEN /\ tpls = r.tpls
               /\ heap = Collect(r.heap, r.tpls, {})
               /\ pc = [i \in Procs |-> "idle"]
          ELSE /\ tpls = EmptySet
               /\ heap = EmptySet
               /\ pc = [i \in Procs |-> "fatal"]
    /\ mu = 0
    /\ calls = 0
    /\ rebuild = NoRebuild
    /\ seen = [l \in LayoutNames |-> {}]
    /\ sess = NoSession
    /\ OthersIdle
    /\ fr = [i \in Procs |-> NoFrame]
    /\ resp = [i \in Procs |-> NoResp]
    /\ bp = NewPool

\* A renderer made in either mode over one of the directories.
Init ==
    /\ reload \in BOOLEAN
    /\ diskOps = 0
    /\ \E dir \in InitDisks : New(dir)

InFlight(i) == pc[i] \notin {"idle", "done", "panicked", "fatal", "crashed"}

\* The template objects a goroutine other than `except` still holds in
\* its local tpl.
Held(except) ==
    {fr[j].tpl : j \in {p \in Procs : p # except
                                      /\ pc[p] \in {"attach", "exec", "executing"}}}

\* The parseTemplates of the goroutine that is at line 263: the one in
\* progress, with the heap and r.tpls as they are now, or one that begins.
Rebuilt ==
    IF rebuild.at = "idle" THEN Begin(heap, tpls)
    ELSE [rebuild EXCEPT !.heap = heap, !.tpls = tpls]

\* Defaults for the layout only: the status code stays as given.
setDefaultsLayoutOnly(o) ==
    [code |-> o.code,
     layout |-> IF o.layout = <<>> THEN DefaultLayout ELSE o.layout]

\* RenderOptions.setDefaults
setDefaults(o) ==
    [code |-> IF o.code = 0 THEN StatusOK ELSE o.code,
     layout |-> IF o.layout = <<>> THEN DefaultLayout ELSE o.layout]

\* HTML lines 250-265: options, buffer from the pool, reset.
HTML(i, name, opt, w) ==
    /\ pc[i] = "idle"
    /\ \A j \in Procs : j < i => pc[j] # "idle"
    /\ calls' = calls + 1
    /\ \E id \in pool_Get(bp, InUse) :
         LET o == setDefaults(opt)
         IN /\ fr' = [j \in Procs |->
                        IF j = i
                        THEN [name |-> name, layout |-> o.layout,
                              opt |-> opt.code, code |-> o.code, isRW |-> w.isRW,
                              req |-> w.req, tpl |-> 0, fi |-> 1,
                              b |-> b_Reset(bp.left[id]), err |-> "",
                              solo |-> \A k \in Procs \ {i} : pc[k] = "idle",
                              buf |-> id, drained |-> FALSE, prog |-> <<>>]
                        ELSE IF pc[j] # "idle" THEN [fr[j] EXCEPT !.solo = FALSE]
                        ELSE fr[j]]
            /\ bp' = [bp EXCEPT !.free = @ \ {id}]
    /\ pc' = [pc EXCEPT ![i] = IF reload THEN "lock1" ELSE "lookup"]
    /\ UNCHANGED <<otherVars, sess, reload, disk0, rebuild, disk, diskOps, tpls, heap, mu, resp>>

\* A call of HTML, of the MaxCalls calls there are.
Call(i, name, opt, w) ==
    /\ calls < MaxCalls
    /\ HTML(i, name, opt, w)
    /\ UNCHANGED seen

\* HTML line 262
Lock1(i) ==
    /\ pc[i] = "lock1"
    /\ mu = 0
    /\ mu' = i
    /\ pc' = [pc EXCEPT ![i] = "parse"]
    /\ UNCHANGED <<otherVars, sess, bp, reload, disk0, rebuild, seen, disk, diskOps, tpls, heap, calls, fr, resp>>

\* HTML line 263: r.parseTemplates(), one access of the directory at a
\* time, on the directory as it is at that access; the accesses of a
\* directory that nothing changes any more (diskOps = MaxDiskOps) are made
\* together. The writes to r.tpls are made as it goes. When it returns, its
\* error is dropped; its panic leaves HTML with the mutex locked.
Parse(i) ==
    /\ pc[i] = "parse"
    /\ \E s \in IF diskOps < MaxDiskOps THEN Step(Rebuilt, disk)
               ELSE ToEnd(Rebuilt, disk) :
          /\ tpls' = s.tpls
          /\ IF s.at = "end"
             THEN /\ heap' = Collect(s.heap, s.tpls, Held(i))
                  /\ rebuild' = NoRebuild
                  /\ fr' = [fr EXCEPT ![i].err = s.res]
                  /\ pc' = [pc EXCEPT ![i] = IF s.res = "panic" THEN "panicked"
                                             ELSE "unlock1"]
             ELSE /\ heap' = Collect(s.heap, s.tpls, Held(i) \union Locals(s))
                  /\ rebuild' = [s EXCEPT !.heap = EmptySet, !.tpls = EmptySet]
                  /\ UNCHANGED <<fr, pc>>
    /\ UNCHANGED <<otherVars, sess, bp, reload, disk0, seen, disk, diskOps, mu, calls, resp>>

\* HTML line 264
Unlock1(i) ==
    /\ pc[i] = "unlock1"
    /\ mu' = 0
    /\ pc' = [pc EXCEPT ![i] = "lock2"]
    /\ UNCHANGED <<otherVars, sess, bp, reload, disk0, rebuild, seen, disk, diskOps, tpls, heap, calls, fr, resp>>

\* HTML lines 267-269
Lock2(i) ==
    /\ pc[i] = "lock2"
    /\ mu = 0
    /\ mu' = i
    /\ pc' = [pc EXCEPT ![i] = "lookup"]
    /\ UNCHANGED <<otherVars, sess, bp, reload, disk0, rebuild, seen, disk, diskOps, tpls, heap, calls, fr, resp>>

\* HTML lines 270-291: the two lookups. An unknown layout leaves for the
\* error response before the unlock of line 279.
Lookup(i) ==
    /\ pc[i] = "lookup"
    /\ IF fr[i].layout \notin DOMAIN tpls
       THEN /\ pc' = [pc EXCEPT ![i] = "errLayout"]
            /\ UNCHANGED <<mu, fr>>
       ELSE LET layout == tpls[fr[i].layout]
                ok == fr[i].name \in DOMAIN layout
            IN /\ mu' = IF reload THEN 0 ELSE mu
               /\ fr' = [fr EXCEPT ![i].tpl = IF ok THEN layout[fr[i].name] ELSE 0]
               /\ pc' = [pc EXCEPT ![i] =
                           IF ~ok THEN "errName"
                           ELSE IF fr[i].isRW /\ fr[i].req /\ Len(Factories) > 0
                                THEN "attach" ELSE "exec"]
    /\ UNCHANGED <<otherVars, sess, bp, reload, disk0, rebuild, seen, disk, diskOps, tpls, heap, calls, resp>>

\* DefinedTemplates with nothing to list.
DefinedNothing == {[layouts |-> {}, templates |-> {}]}

\* r.DefinedTemplates(): the layout names and the content names of the
\* layout the map iteration happens to visit first.
DefinedTemplates ==
    IF DOMAIN tpls = {}
    THEN {[layouts |-> {}, templates |-> {}]}
    ELSE {[layouts |-> DOMAIN tpls, templates |-> DOMAIN tpls[l]] : l \in DOMAIN tpls}

\* Another goroutine holds the mutex inside parseTemplates (line 263) and
\* writes r.tpls while goroutine i, which released the mutex at line 279,
\* reads it.
Racing(i) == reload /\ \E j \in Procs \ {i} : pc[j] = "parse"

\* r.DefinedTemplates() during another goroutine's rebuild, a data race: the
\* layout names as the cache holds them at some point of the rebuild and
\* the content names of one layout at some point of it.
DefinedRacing ==
    LET views == Caches(Rebuilt, disk)
        names(c) == IF DOMAIN c = {} THEN {{}} ELSE {DOMAIN c[l] : l \in DOMAIN c}
    IN UNION {{[layouts |-> DOMAIN c1, templates |-> t] :
                 t \in UNION {names(c2) : c2 \in views}} : c1 \in views}

\* r.TextError(w, error, code)
TextError(rs, isRW, error, code) ==
    [ctype |-> IF isRW THEN "text/plain; charset=utf-8" ELSE rs.ctype,
     status |-> IF isRW THEN code ELSE rs.status,
     body |-> Append(rs.body, error)]

\* HTML lines 271-276
ErrLayout(i) ==
    /\ pc[i] = "errLayout"
    /\ \E d \in DefinedTemplates :
         resp' = [resp EXCEPT ![i] =
                    TextError(resp[i], fr[i].isRW,
                              [kind |-> "no layout named", name |-> fr[i].name,
                               defined |-> d, out |-> <<>>],
                              StatusInternalServerError)]
    /\ pc' = [pc EXCEPT ![i] = "done"]
    /\ UNCHANGED <<otherVars, sess, bp, reload, disk0, rebuild, seen, disk, diskOps, tpls, heap, mu, calls, fr>>

\* HTML lines 281-286. DefinedTemplates is called without the mutex: for
\* the other outcome of the race see RaceFatal.
ErrName(i) ==
    /\ pc[i] = "errName"
    /\ \E d \in IF Racing(i) THEN DefinedRacing ELSE DefinedTemplates :
         resp' = [resp EXCEPT ![i] =
                    TextError(resp[i], fr[i].isRW,
                              [kind |-> "no template named", name |-> fr[i].name,
                               defined |-> d, out |-> <<>>],
                              StatusInternalServerError)]
    /\ pc' = [pc EXCEPT ![i] = "done"]
    /\ UNCHANGED <<otherVars, sess, bp, reload, disk0, rebuild, seen, disk, diskOps, tpls, heap, mu, calls, fr>>

\* HTML lines 295-306, one turn of the loop over r.funcs:
\* tpl.Funcs(fn(rw, req)) on the cached object.
Attach(i) ==
    /\ pc[i] = "attach"
    /\ heap' = TplFuncs(heap, fr[i].tpl, LiveFuncMap(fr[i].fi, i))
    /\ fr' = [fr EXCEPT ![i].fi = @ + 1]
    /\ pc' = [pc EXCEPT ![i] = IF fr[i].fi = Len(Factories) THEN "exec" ELSE "attach"]
    /\ UNCHANGED <<otherVars, sess, bp, reload, disk0, rebuild, seen, disk, diskOps, tpls, mu, calls, resp>>

\* What a step s of the execution of goroutine i leaves: its output in the
\* buffer b after the bytes b holds, and either the nodes still to execute
\* or the end of the execution, with the object no longer referred to.
Executed(i, s) ==
    LET more == s.ok /\ s.rest # <<>>
    IN /\ fr' = [fr EXCEPT ![i].b = @ \o s.out,
                           ![i].err = IF s.ok THEN "" ELSE "wrong number of args",
                           ![i].prog = s.rest,
                           ![i].tpl = IF more THEN @ ELSE 0]
       /\ pc' = [pc EXCEPT ![i] = IF more THEN "executing"
                                  ELSE IF s.ok THEN "write" ELSE "errExec"]
       /\ heap' = Collect(heap, tpls, Held(i) \cup Locals(rebuild)
                                         \cup (IF more THEN {fr[i].tpl} ELSE {}))

\* HTML line 308: tpl.ExecuteTemplate(b, o.Layout+".html", data), as far as
\* its first function call.
Exec(i) ==
    /\ pc[i] = "exec"
    /\ \E r \in {ExecStart(heap[fr[i].tpl], fr[i].layout \o DotHtml)} :
          IF r.ok THEN Executed(i, ExecStep(heap[fr[i].tpl], r.prog))
          ELSE /\ fr' = [fr EXCEPT ![i].err = r.err, ![i].tpl = 0]
               /\ pc' = [pc EXCEPT ![i] = "errExec"]
               /\ heap' = Collect(heap, tpls, Held(i) \cup Locals(rebuild))
    /\ UNCHANGED <<otherVars, sess, bp, reload, disk0, rebuild, seen, disk, diskOps, tpls, mu, calls, resp>>

\* HTML line 308, the execution from one function call to the next, with
\* the function table the object has by now.
ExecNext(i) ==
    /\ pc[i] = "executing"
    /\ Executed(i, ExecStep(heap[fr[i].tpl], fr[i].prog))
    /\ UNCHANGED <<otherVars, sess, bp, reload, disk0, rebuild, seen, disk, diskOps, tpls, mu, calls, resp>>

\* The error path of line 308 with the buffer flushed before the error
\* text.
ErrExecFlushed(i) ==
    /\ pc[i] = "errExec"
    /\ resp' = [resp EXCEPT ![i] =
                  TextError([resp[i] EXCEPT !.body =
                               Append(@, [kind |-> "html", name |-> fr[i].name,
                                          defined |-> [layouts |-> {}, templates |-> {}],
                                          out |-> fr[i].b])],
                            fr[i].isRW,
                            [kind |-> fr[i].err, name |-> fr[i].layout \o DotHtml,
                             defined |-> [layouts |-> {}, templates |-> {}],
                             out |-> <<>>],
                            StatusInternalServerError)]
    /\ pc' = [pc EXCEPT ![i] = "done"]
    /\ UNCHANGED <<otherVars, sess, bp, reload, disk0, rebuild, seen, disk, diskOps, tpls, heap, mu, calls, fr>>

\* HTML lines 309-312. The log line of line 310 takes r.DefinedTemplates()
\* without the mutex; what it reads goes to the log only. For the other
\* outcome of the race see RaceFatal.
ErrExec(i) ==
    /\ pc[i] = "errExec"
    /\ resp' = [resp EXCEPT ![i] =
                  TextError(resp[i], fr[i].isRW,
                            [kind |-> fr[i].err, name |-> fr[i].layout \o DotHtml,
                             defined |-> [layouts |-> {}, templates |-> {}],
                             out |-> <<>>],
                            StatusInternalServerError)]
    /\ pc' = [pc EXCEPT ![i] = "done"]
    /\ UNCHANGED <<otherVars, sess, bp, reload, disk0, rebuild, seen, disk, diskOps, tpls, heap, mu, calls, fr>>

\* The calls of r.DefinedTemplates() of lines 283 and 310 iterate over
\* r.tpls without the mutex. When another goroutine is writing the maps the
\* Go runtime may stop the process: fatal error: concurrent map iteration
\* and map write. No goroutine goes on and no response is written.
RaceFatal(i) ==
    /\ pc[i] \in {"errName", "errExec"}
    /\ Racing(i)
    /\ pc' = [j \in Procs |-> "crashed"]
    /\ UNCHANGED <<otherVars, sess, bp, reload, disk0, rebuild, seen, disk, diskOps, tpls, heap, mu, calls, fr, resp>>

\* HTML lines 315-318: the content type and the status code, when the
\* writer is an http.ResponseWriter.
WriteHeader(i) ==
    /\ pc[i] = "write"
    /\ resp' = [resp EXCEPT ![i] =
                  [ctype |-> IF fr[i].isRW THEN "text/html" ELSE @.ctype,
                   status |-> IF fr[i].isRW THEN fr[i].code ELSE @.status,
                   body |-> @.body]]
    /\ pc' = [pc EXCEPT ![i] = "writeTo"]
    /\ UNCHANGED <<otherVars, sess, bp, reload, disk0, rebuild, seen, disk, diskOps, tpls, heap, mu, calls, fr>>

\* HTML lines 319-321: b.WriteTo(w).
WriteTo(i) ==
    /\ pc[i] = "writeTo"
    /\ resp' = [resp EXCEPT ![i].body =
                  Append(@, [kind |-> "html", name |-> fr[i].name,
                             defined |-> [layouts |-> {}, templates |-> {}],
                             out |-> fr[i].b])]
    /\ pc' = [pc EXCEPT ![i] = "done"]
    /\ fr' = [fr EXCEPT ![i].drained = TRUE]
    /\ UNCHANGED <<otherVars, sess, bp, reload, disk0, rebuild, seen, disk, diskOps, tpls, heap, mu, calls>>

\* HTML returns (or unwinds after a panic): the deferred r.pool.Put(b). The
\* buffer goes to the pool with the bytes it holds, none when WriteTo has
\* drained it.
Return(i) ==
    /\ pc[i] \in {"done", "panicked"}
    /\ pc' = [pc EXCEPT ![i] = "idle"]
    /\ bp' = pool_Put(bp, fr[i].buf, IF fr[i].drained THEN <<>> ELSE fr[i].b)
    /\ fr' = [fr EXCEPT ![i] = NoFrame]
    /\ resp' = [resp EXCEPT ![i] = NoResp]
    /\ UNCHANGED <<otherVars, sess, reload, disk0, rebuild, seen, disk, diskOps, tpls, heap, mu, calls>>

\* ------------------------------------------- the directory changes

\* The files that are written where none was, the files that are edited
\* and the files that are deleted.
AddedFiles == {P_lx, P_c}
EditedFiles == {P_a, P_db}
RemovedFiles == {P_db}

\* The directory d with a file written at p where none was; d/b.html
\* comes with its directory.
Added(d, p, kind) ==
    [q \in Paths |-> IF q = p THEN kind
                     ELSE IF q = DirOf[p] THEN "dir" ELSE d[q]]

\* A file is written where none was.
AddFile(p, kind) ==
    /\ diskOps < MaxDiskOps
    /\ disk[p] = "absent"
    /\ p \in UnderLayoutsDir => disk[LayoutsDir] = "dir"
    /\ disk' = Added(disk, p, kind)
    /\ diskOps' = diskOps + 1
    /\ UNCHANGED <<otherVars, sess, bp, reload, disk0, rebuild, seen, tpls, heap, mu, calls, pc, fr, resp>>

\* A file is edited and its template syntax broken.
BreakFile(p) ==
    /\ diskOps < MaxDiskOps
    /\ disk[p] = "good"
    /\ disk' = Broken(disk, p)
    /\ diskOps' = diskOps + 1
    /\ UNCHANGED <<otherVars, sess, bp, reload, disk0, rebuild, seen, tpls, heap, mu, calls, pc, fr, resp>>

\* A file is deleted; its directory stays.
RemoveFile(p) ==
    /\ diskOps < MaxDiskOps
    /\ IsFile(disk, p)
    /\ disk' = [disk EXCEPT ![p] = "absent"]
    /\ diskOps' = diskOps + 1
    /\ UNCHANGED <<otherVars, sess, bp, reload, disk0, rebuild, seen, tpls, heap, mu, calls, pc, fr, resp>>

\* The layouts directory is deleted with what it holds.
RemoveLayoutsDir ==
    /\ diskOps < MaxDiskOps
    /\ disk[LayoutsDir] = "dir"
    /\ disk' = [p \in Paths |->
                  IF p = LayoutsDir \/ p \in UnderLayoutsDir
                  THEN "absent" ELSE disk[p]]
    /\ diskOps' = diskOps + 1
    /\ UNCHANGED <<otherVars, sess, bp, reload, disk0, rebuild, seen, tpls, heap, mu, calls, pc, fr, resp>>

\* The versions of the site a deployment can put in the directory: some
\* layouts and some content files, all well formed.
SiteVersions ==
    {DiskOf({LayoutsDir} \union ls \union cs) :
        ls \in (SUBSET {P_layout, P_m}) \ {{}},
        cs \in (SUBSET {P_a, P_db}) \ {{}}}

\* A deployment replaces the directory by another version of the site.
Deploy(d) ==
    /\ diskOps < MaxDiskOps
    /\ d # disk
    /\ disk' = d
    /\ diskOps' = diskOps + 1
    /\ UNCHANGED <<otherVars, sess, bp, reload, disk0, rebuild, seen, tpls, heap, mu, calls, pc, fr, resp>>

Next ==
    \/ \E i \in Procs, name \in ArgNames, opt \in ArgOpts, w \in ArgWriters :
         Call(i, name, opt, w)
    \/ \E i \in Procs : Lock1(i)
    \/ \E i \in Procs : Parse(i)
    \/ \E i \in Procs : Unlock1(i)
    \/ \E i \in Procs : Lock2(i)
    \/ \E i \in Procs : Lookup(i)
    \/ \E i \in Procs : ErrLayout(i)
    \/ \E i \in Procs : ErrName(i)
    \/ \E i \in Procs : Attach(i)
    \/ \E i \in Procs : Exec(i)
    \/ \E i \in Procs : ExecNext(i)
    \/ \E i \in Procs : ErrExec(i)
    \/ \E i \in Procs : RaceFatal(i)
    \/ \E i \in Procs : WriteHeader(i)
    \/ \E i \in Procs : WriteTo(i)
    \/ \E i \in Procs : Return(i)
    \/ \E p \in AddedFiles : AddFile(p, "good")
    \/ \E p \in EditedFiles : BreakFile(p)
    \/ \E p \in RemovedFiles : RemoveFile(p)
    \/ RemoveLayoutsDir

Spec == Init /\ [][Next]_vars

\* The renderer rendering the same pages again and again: two layouts and
\* two content files, which nobody changes. Each page is rendered with and
\* without a live function table (a request or a nil request); seen keeps,
\* for each layout, the function tables the renders of a.html under it were
\* called with.
MaxRerenders == 3

CloneDisk == DiskOf({LayoutsDir, P_layout, P_m, P_a, P_db})

\* The writer is an http.ResponseWriter; the request is nil or not.
RerenderWriters == {w \in ArgWriters : w.isRW}

InitClone ==
    /\ reload \in BOOLEAN
    /\ diskOps = MaxDiskOps
    /\ New(CloneDisk)

\* A call of HTML, of the MaxRerenders calls there are, which is taken
\* note of.
Rerender(i, name, opt, w) ==
    /\ calls < MaxRerenders
    /\ HTML(i, name, opt, w)
    /\ seen' = IF name = N_a
               THEN [seen EXCEPT ![setDefaults(opt).layout] =
                       @ \union {IF w.isRW /\ w.req THEN i ELSE 0}]
               ELSE seen

NextClone ==
    \/ \E i \in Procs, name \in ArgNames, opt \in ArgOpts, w \in RerenderWriters :
         Rerender(i, name, opt, w)
    \/ \E i \in Procs : Lock1(i)
    \/ \E i \in Procs : Parse(i)
    \/ \E i \in Procs : Unlock1(i)
    \/ \E i \in Procs : Lock2(i)
    \/ \E i \in Procs : Lookup(i)
    \/ \E i \in Procs : Attach(i)
    \/ \E i \in Procs : Exec(i)
    \/ \E i \in Procs : ExecNext(i)
    \/ \E i \in Procs : ErrExec(i)
    \/ \E i \in Procs : RaceFatal(i)
    \/ \E i \in Procs : WriteHeader(i)
    \/ \E i \in Procs : WriteTo(i)
    \/ \E i \in Procs : Return(i)

SpecClone == InitClone /\ [][NextClone]_vars

\* The renderer in a directory that changes by deployments of whole
\* versions of the site rather than file by file.
NextDeploy ==
    \/ \E i \in Procs, name \in ArgNames, opt \in ArgOpts, w \in ArgWriters :
         Call(i, name, opt, w)
    \/ \E i \in Procs : Lock1(i)
    \/ \E i \in Procs : Parse(i)
    \/ \E i \in Procs : Unlock1(i)
    \/ \E i \in Procs : Lock2(i)
    \/ \E i \in Procs : Lookup(i)
    \/ \E i \in Procs : ErrLayout(i)
    \/ \E i \in Procs : ErrName(i)
    \/ \E i \in Procs : Attach(i)
    \/ \E i \in Procs : Exec(i)
    \/ \E i \in Procs : ExecNext(i)
    \/ \E i \in Procs : ErrExec(i)
    \/ \E i \in Procs : RaceFatal(i)
    \/ \E i \in Procs : WriteHeader(i)
    \/ \E i \in Procs : WriteTo(i)
    \/ \E i \in Procs : Return(i)
    \/ \E d \in SiteVersions : Deploy(d)

\* The renderer made over the first version of the site.
FirstVersion == DiskOf({LayoutsDir, P_layout, P_a, P_db})

InitDeploy ==
    /\ reload \in BOOLEAN
    /\ diskOps = 0
    /\ New(FirstVersion)

SpecDeploy == InitDeploy /\ [][NextDeploy]_vars


\* ------------------------------------------------- the session operations

\* One more call on the request in hand, logged with what it returned.
Logged(q, op, key, val) ==
    [q EXCEPT !.log = Append(@, [op |-> op, key |-> key, val |-> val]),
              !.ops = @ + 1]

\* s.Get(r, key)
Get(key) ==
    /\ sess.ops < MaxSessionOps
    /\ sess' = Logged(sess, "Get", key, MapGet(fromReq(sess).Data, key))
    /\ UNCHANGED <<renderVars, otherVars>>

\* s.List(r)
List ==
    /\ sess.ops < MaxSessionOps
    /\ sess' = Logged(sess, "List", "", fromReq(sess).Data.kv)
    /\ UNCHANGED <<renderVars, otherVars>>

\* s.Set(w, r, key, value)
Set(key, value) ==
    /\ sess.ops < MaxSessionOps
    /\ LET data == fromReq(sess)
           w == MapSet(data.Data, key, value)
       IN sess' = IF ~w.ok THEN Logged(sess, "panic", key, "")
                  ELSE Logged(saveCtx(sess, [data EXCEPT !.Data = w.m]),
                              "Set", key, value)
    /\ UNCHANGED <<renderVars, otherVars>>

\* Delete without line 150: the value is returned and kept.
DeleteKept(key) ==
    /\ sess.ops < MaxSessionOps
    /\ LET data == fromReq(sess)
       IN sess' = Logged(saveCtx(sess, data), "Delete", key, MapGet(data.Data, key))
    /\ UNCHANGED <<renderVars, otherVars>>

\* s.Delete(w, r, key)
Delete(key) ==
    /\ sess.ops < MaxSessionOps
    /\ LET data == fromReq(sess)
       IN sess' = Logged(saveCtx(sess, [data EXCEPT !.Data = MapDelete(@, key)]),
                         "Delete", key, MapGet(data.Data, key))
    /\ UNCHANGED <<renderVars, otherVars>>

\* s.Reset(w, r)
Reset ==
    /\ sess.ops < MaxSessionOps
    /\ sess' = [Logged(saveCtx(sess, [Data |-> MakeMap, Flashes |-> MakeMap]),
                       "Reset", "", "")
                  EXCEPT !.pending = EmptySet]
    /\ UNCHANGED <<renderVars, otherVars>>

\* s.Flash(w, r, key, value)
Flash(key, value) ==
    /\ sess.ops < MaxSessionOps
    /\ LET data == fromReq(sess)
           w == MapSet(data.Flashes, key, value)
       IN sess' = IF ~w.ok THEN Logged(sess, "panic", key, "")
                  ELSE [Logged(saveCtx(sess, [data EXCEPT !.Flashes = w.m]),
                               "Flash", key, value)
                          EXCEPT !.pending = Override(@, (key :> value))]
    /\ UNCHANGED <<renderVars, otherVars>>

\* Flashes without line 180: the flashes are returned and kept.
FlashesKept ==
    /\ sess.ops < MaxSessionOps
    /\ LET data == fromReq(sess)
       IN sess' = [Logged(saveCtx(sess, data), "Flashes", "", data.Flashes.kv)
                     EXCEPT !.pending = EmptySet]
    /\ UNCHANGED <<renderVars, otherVars>>

\* s.Flashes(w, r)
Flashes ==
    /\ sess.ops < MaxSessionOps
    /\ LET data == fromReq(sess)
       IN sess' = [Logged(saveCtx(sess, [data EXCEPT !.Flashes = MakeMap]),
                          "Flashes", "", data.Flashes.kv)
                     EXCEPT !.pending = EmptySet]
    /\ UNCHANGED <<renderVars, otherVars>>

\* The response is sent and the browser makes its next request, with the
\* cookie the last Set-Cookie header gave it, or the one it had.
NextRequest ==
    /\ sess.ops < MaxSessionOps
    /\ LET cookie == IF sess.setCookies = <<>> THEN sess.cookie
                     ELSE CookieOf(sess.setCookies[Len(sess.setCookies)])
       IN sess' = [NewRequest(cookie) EXCEPT !.ops = sess.ops + 1]
    /\ UNCHANGED <<renderVars, otherVars>>

\* No page is rendered.
NoRender ==
    /\ reload = FALSE
    /\ disk = DiskOf({})
    /\ disk0 = disk
    /\ diskOps = 0
    /\ tpls = EmptySet
    /\ heap = EmptySet
    /\ mu = 0
    /\ calls = 0
    /\ rebuild = NoRebuild
    /\ seen = [l \in LayoutNames |-> {}]
    /\ pc = [i \in Procs |-> "idle"]
    /\ fr = [i \in Procs |-> NoFrame]
    /\ resp = [i \in Procs |-> NoResp]
    /\ bp = NewPool

\* A handler's session calls, with no page rendered.
InitSession ==
    /\ NoRender
    /\ OthersIdle
    /\ \E cookie \in InitCookies : sess = NewRequest(cookie)

NextSession ==
    \/ \E key \in DataKeys : Get(key)
    \/ List
    \/ \E key \in DataKeys, value \in Values : Set(key, value)
    \/ \E key \in DataKeys : Delete(key)
    \/ Reset
    \/ \E key \in FlashKeys, value \in Values : Flash(key, value)
    \/ Flashes
    \/ NextRequest

SpecSession == InitSession /\ [][NextSession]_vars

\* --------------------------------------------- the application (seatbelt)

\* c.SetValue(key, value); c.Values.Set(key, value) of the later context
\* has the same effect.
SetValue(key, value) ==
    /\ cx' = [cx EXCEPT !.values = MapSet(values(@), key, value).m]
    /\ UNCHANGED <<notApp, app, option>>

\* c.DeleteValue(key); c.Values.Delete(key) of the later context makes the
\* map when there is none.
DeleteValue(key) ==
    /\ cx' = [cx EXCEPT !.values =
                 IF @.isNil /\ cx.build = "Context" THEN @
                 ELSE MapDelete(values(@), key)]
    /\ UNCHANGED <<notApp, app, option>>

\* c.GetValue(key) returns MapGet(c.values, key) and changes nothing;
\* c.Values.Get(key) of the later context makes and saves the map when
\* there is none, and returns its entry.
GetValue(key) ==
    /\ cx' = IF cx.build = "Context" THEN cx ELSE [cx EXCEPT !.values = values(@)]
    /\ UNCHANGED <<notApp, app, option>>

\* c.ListValues() returns c.values, nil when nothing was set, and changes
\* nothing; c.Values.List() of the later context makes and saves the map
\* when there is none, and returns it.
ListValues ==
    /\ cx' = IF cx.build = "Context" THEN cx ELSE [cx EXCEPT !.values = values(@)]
    /\ UNCHANGED <<notApp, app, option>>

\* c.I18N.T(id, data) of the later context: the translator is handed
\* mergeMaps(c.values.List(), data), which is the map of the values itself
\* with the entries added to it.
I18N_T(data) ==
    /\ cx.build = "context"
    /\ cx' = [cx EXCEPT !.values = mergeMaps(values(cx.values), data)]
    /\ UNCHANGED <<notApp, app, option>>

\* (*Context).Render(name, data): the renderer is handed
\* c.mergeValues(data).
Context_Render(data) ==
    /\ cx.build = "Context"
    /\ cx.renders < MaxRenders
    /\ cx' = [cx EXCEPT !.data = data,
                        !.passed = mergeValues(cx.values, data),
                        !.renders = @ + 1]
    /\ UNCHANGED <<notApp, app, option>>

\* (*context).Render(name, data): the renderer is handed
\* mergeMaps(c.values.List(), data), which is the map of the values itself
\* with the entries added to it.
context_Render(data) ==
    /\ cx.build = "context"
    /\ cx.renders < MaxRenders
    /\ LET merged == mergeMaps(values(cx.values), data)
       IN cx' = [cx EXCEPT !.data = data,
                           !.passed = merged,
                           !.values = merged,
                           !.renders = @ + 1]
    /\ UNCHANGED <<notApp, app, option>>

\* (*Option).setDefaults, called by New before anything else.
setDefaults_Option ==
    /\ ~option.set
    /\ \E random \in RandomKeys :
          option' = [(IF option.SigningKey = "" THEN setMasterKey(option, random)
                      ELSE option) EXCEPT !.set = TRUE]
    /\ UNCHANGED <<notApp, cx, app>>

\* a.Use(middleware...)
Use(middleware) ==
    /\ option.set
    /\ Len(app.middlewares) + Len(middleware) <= MaxMiddlewares
    /\ app' = [app EXCEPT !.middlewares = @ \o middleware]
    /\ UNCHANGED <<notApp, cx, option>>

\* a.serveContext(w, r, handle) for a request to the route: a new Context,
\* the route's handler wrapped in the middleware, and the call of the result.
serveContext ==
    /\ option.set
    /\ app.requests < MaxRequests
    /\ LET handle == WrapAll(app.route, app.middlewares, Len(app.middlewares))
       IN app' = [app EXCEPT !.served = app.middlewares,
                             !.trace = Run(handle),
                             !.requests = @ + 1]
    /\ cx' = NewContext(cx.build)
    /\ UNCHANGED <<notApp, option>>

InitApp ==
    /\ NoRender
    /\ sess = NoSession
    /\ \E build \in Builds : cx = NewContext(build)
    /\ app = NewApp
    /\ \E secret \in EnvSecrets, file \in KeyFiles, signingKey \in SigningKeys :
          option = NewOption(secret, file, signingKey)
    /\ hd = NoCall
    /\ tl = NewBrowser
    /\ vb = NewValues

NextApp ==
    \/ setDefaults_Option
    \/ \E middleware \in UseArgs : Use(middleware)
    \/ serveContext
    \/ \E key \in ValueKeys, value \in ScopedValues : SetValue(key, value)
    \/ \E key \in ValueKeys : DeleteValue(key)
    \/ \E key \in ValueKeys : GetValue(key)
    \/ ListValues
    \/ \E data \in ArgData : I18N_T(data)
    \/ \E data \in ArgData : Context_Render(data)
    \/ \E data \in ArgData : context_Render(data)

SpecApp == InitApp /\ [][NextApp]_vars

\* ------------------------------------------------- the calls of package values

\* One more call in the log of the request: the bag, the call, its key and
\* what it was given or what it returned.
Called(bag, op, key, val) ==
    Append(vb.log, [bag |-> bag, op |-> op, key |-> key, val |-> val])

\* values.New(r) on the request: the bag's r is the request.
Values_New ==
    /\ Len(vb.bags) < MaxBags
    /\ Len(vb.log) < MaxValueOps
    /\ vb' = [vb EXCEPT !.bags = Append(@, vb.r),
                        !.log = Called(Len(vb.bags) + 1, "New", "", "")]
    /\ UNCHANGED notValues

\* v.Set(key, value)
Values_Set(v, key, value) ==
    /\ Len(vb.log) < MaxValueOps
    /\ LET data == values(vb.bags[v])
       IN vb' = [vb EXCEPT !.bags[v] = save(MapSet(data, key, value).m),
                           !.log = Called(v, "Set", key, value)]
    /\ UNCHANGED notValues

\* v.Get(key)
Values_Get(v, key) ==
    /\ Len(vb.log) < MaxValueOps
    /\ LET data == values(vb.bags[v])
       IN vb' = [vb EXCEPT !.bags[v] = save(data),
                           !.log = Called(v, "Get", key, MapGet(data, key))]
    /\ UNCHANGED notValues

\* v.List()
Values_List(v) ==
    /\ Len(vb.log) < MaxValueOps
    /\ LET data == values(vb.bags[v])
       IN vb' = [vb EXCEPT !.bags[v] = save(data),
                           !.log = Called(v, "List", "", data.kv)]
    /\ UNCHANGED notValues

\* v.Delete(key) that leaves the key where it is.
Values_DeleteKept(v, key) ==
    /\ Len(vb.log) < MaxValueOps
    /\ LET data == values(vb.bags[v])
       IN vb' = [vb EXCEPT !.bags[v] = save(data),
                           !.log = Called(v, "Delete", key, "")]
    /\ UNCHANGED notValues

\* v.Delete(key)
Values_Delete(v, key) ==
    /\ Len(vb.log) < MaxValueOps
    /\ LET data == values(vb.bags[v])
       IN vb' = [vb EXCEPT !.bags[v] = save(MapDelete(data, key)),
                           !.log = Called(v, "Delete", key, "")]
    /\ UNCHANGED notValues

InitValues ==
    /\ NoRender
    /\ sess = NoSession
    /\ cx = NewContext("Context")
    /\ app = NewApp
    /\ option = NewOption("", "", "optkey")
    /\ hd = NoCall
    /\ tl = NewBrowser
    /\ vb = NewValues

NextValues ==
    \/ Values_New
    \/ \E v \in DOMAIN vb.bags, key \in ValueKeys, value \in BagValues :
          Values_Set(v, key, value)
    \/ \E v \in DOMAIN vb.bags, key \in ValueKeys : Values_Get(v, key)
    \/ \E v \in DOMAIN vb.bags : Values_List(v)
    \/ \E v \in DOMAIN vb.bags, key \in ValueKeys : Values_Delete(v, key)

SpecValues == InitValues /\ [][NextValues]_vars

\* --------------------------------------------- the calls of package handler

\* handler.Params(w, r, pathParamFunc, &v) on a request r.
CallParams(r) ==
    /\ hd' = [op |-> "Params", r |-> r, err |-> Params(r).err,
              name |-> Params(r).name, code |-> 0]
    /\ UNCHANGED notHandler

\* handler.Redirect(w, r, url) on a request of the given method.
CallRedirect(method) ==
    /\ hd' = [op |-> "Redirect", r |-> [NoCall.r EXCEPT !.method = method],
              err |-> "", name |-> Absent, code |-> Redirect(method)]
    /\ UNCHANGED notHandler

InitHandler ==
    /\ NoRender
    /\ sess = NoSession
    /\ cx = NewContext("Context")
    /\ app = NewApp
    /\ option = NewOption("", "", "optkey")
    /\ hd = NoCall
    /\ tl = NewBrowser
    /\ vb = NewValues

NextHandler ==
    \/ \E r \in ParamsRequests : CallParams(r)
    \/ \E method \in Methods : CallRedirect(method)

SpecHandler == InitHandler /\ [][NextHandler]_vars

\* --------------------------------------------------- the Turbolinks handler

\* Whether the browser follows the last response: a 3xx status with a
\* Location header makes its next request a GET of that location, with the
\* headers of the request that was redirected.
Follows(method, turbolinks, url) ==
    (~tl.w.panicked /\ tl.w.code \in {StatusFound, StatusSeeOther}
     /\ tl.w.sent.location # NoLocation) =>
        /\ method = "GET"
        /\ turbolinks = tl.r.turbolinks
        /\ url = tl.w.sent.location

\* The browser requests url and Turbolinks(h) answers; the browser keeps
\* the cookies of the response, unless the handler panicked and no response
\* was sent.
Visit(method, turbolinks, url, h) ==
    /\ tl.n < MaxVisits
    /\ Follows(method, turbolinks, url)
    /\ LET r == [method |-> method, turbolinks |-> turbolinks, url |-> url,
                 cookie |-> CookieFor(tl.jar, url), h |-> h]
           w == Turbolinks(h, r)
       IN tl' = [jar |-> IF w.panicked THEN tl.jar
                         ELSE StoreAll(tl.jar, url, w.sent.setCookies),
                 r |-> r, w |-> w, n |-> tl.n + 1]
    /\ UNCHANGED notServer

InitServer ==
    /\ NoRender
    /\ sess = NoSession
    /\ cx = NewContext("Context")
    /\ app = NewApp
    /\ option = NewOption("", "", "optkey")
    /\ hd = NoCall
    /\ tl = NewBrowser
    /\ vb = NewValues

NextServer ==
    \E method \in {"GET", "POST"}, turbolinks \in BOOLEAN, url \in URLs,
       h \in Handlers : Visit(method, turbolinks, url, h)

SpecServer == InitServer /\ [][NextServer]_vars


\* ================================================================ claims

\* What the claims speak of.

\* New returned a renderer.
NewReturned == \A i \in Procs : pc[i] # "fatal"

\* The call of goroutine i attaches a live function table.
Live(i) == fr[i].isRW /\ fr[i].req

\* The results of live functions in an output.
LiveAtoms(out) == {out[k] : k \in {j \in 1..Len(out) : out[j].t = "fn"}}

\* The canonical name of a template file: its path with the extension off.
Canonical(p) == SubSeq(p, 1, Len(p) - Len(DotHtml))

\* The well-formed .html files outside layouts/, and the layouts, of a
\* directory.
ContentOnDisk(d) ==
    {p \in Files \ UnderLayoutsDir : d[p] = "good" /\ Ext(p) = DotHtml}
LayoutsOnDisk(d) ==
    {Canonical(Rel(LayoutsDir, p)) : p \in {q \in UnderLayoutsDir : d[q] = "good"}}

\* Goroutine i's rebuild takes this step and returns nil.
RebuildOk(i) == pc[i] = "parse" /\ pc'[i] = "unlock1" /\ fr'[i].err = "ok"
\* Goroutine i's rebuild takes this step and returns an error.
RebuildErr(i) == pc[i] = "parse" /\ pc'[i] = "unlock1" /\ fr'[i].err = "err"

\* Every content file of directory d has an entry under each layout of d.
CacheCovers(d, cache) ==
    \A l \in LayoutsOnDisk(d), p \in ContentOnDisk(d) :
        l \in DOMAIN cache /\ Canonical(p) \in DOMAIN cache[l]

\* Every entry of the cache is for a layout and a content file of d.
CacheWithin(d, cache) ==
    \A l \in DOMAIN cache :
        /\ l \in LayoutsOnDisk(d)
        /\ \A n \in DOMAIN cache[l] : \E p \in ContentOnDisk(d) : Canonical(p) = n

\* C1 (as claimed): the output of a call that attached its own request's
\* functions holds the results of that request's functions only, never
\* those of another request.
C1_OnlyOwnToken ==
    \A i \in Procs :
        (pc[i] = "write" /\ Live(i)) =>
            \A a \in LiveAtoms(fr[i].b) : a.req = i

\* C2 (as claimed): a call that attaches no live table, made after every
\* earlier call has returned, executes with the placeholder functions: its
\* output holds no result of a live function.
C2_NoLeftoverTable ==
    \A i \in Procs :
        (pc[i] = "write" /\ ~Live(i) /\ fr[i].solo) => LiveAtoms(fr[i].b) = {}

\* The composition of one layout file and one content file, made from the
\* two sources alone.
Composed(l, n) ==
    LET lp == Layouts \o <<"/">> \o l \o DotHtml
        cp == n \o DotHtml
    IN ParseInto(ParseInto(NewTemplate, lp, SourceOf[lp]), cp, SourceOf[cp])

\* The (layout, content) pairs the cache has an entry for.
Cached == UNION {{<<l, n>> : n \in DOMAIN tpls[l]} : l \in DOMAIN tpls}

\* Goroutine i takes a step of its template execution.
Executes(i) ==
    /\ pc[i] \in {"exec", "executing"}
    /\ pc'[i] # "crashed"
    /\ pc'[i] # pc[i] \/ fr'[i].prog # fr[i].prog

\* What the step of execution goroutine i is at writes when the object
\* executed is obj: from the start of the template to the text after its
\* first function call, or from one function call to the next.
StepOf(i, obj) ==
    IF pc[i] = "exec"
    THEN LET start == ExecStart(obj, fr[i].layout \o DotHtml)
         IN IF start.ok THEN ExecStep(obj, start.prog)
            ELSE [out |-> <<>>, rest |-> <<>>, ok |-> FALSE]
    ELSE ExecStep(obj, fr[i].prog)

\* The one message a finished call wrote, when it wrote exactly one.
Wrote(i, kind) ==
    /\ pc[i] = "done"
    /\ Len(resp[i].body) = 1
    /\ resp[i].body[1].kind = kind

\* The text a sequence of nodes holds, and the text of a template file:
\* of its body and of its {{define}} blocks.
TextsIn(nodes) == {nodes[k].v : k \in {j \in 1..Len(nodes) : nodes[j].k = "text"}}
TextsOf(path) ==
    TextsIn(SourceOf[path].body) \union
    UNION {TextsIn(SourceOf[path].defs[n]) : n \in DOMAIN SourceOf[path].defs}

\* The text of the layout file of l and of the content file of n.
OwnTexts ==
    [l \in LayoutNames, n \in ArgNames |->
        TextsOf(Layouts \o <<"/">> \o l \o DotHtml) \union TextsOf(n \o DotHtml)]

\* The function table a call is made with, by its number: 0 is the
\* placeholders New attached, c > 0 the live functions of the request of
\* goroutine c, each factory's over the ones before it (lines 295-306).
RECURSIVE Attached(_, _)
Attached(c, fi) ==
    IF fi = 0 THEN noopFuncMap
    ELSE Override(Attached(c, fi - 1), LiveFuncMap(fi, c))

TableOf(c) == IF c = 0 THEN noopFuncMap ELSE Attached(c, Len(Factories))

\* The number of the table the call of goroutine i is made with.
Table(i) == IF Live(i) THEN i ELSE 0

\* What the layout l composed with the content of n and of no other file
\* writes when the function table of number c, and no other, is attached
\* to it.
Alone ==
    [l \in LayoutNames, n \in ArgNames, c \in 0..NProcs |->
        ExecuteTemplate([Composed(l, n) EXCEPT !.funcs = TableOf(c)], l \o DotHtml)]

\* Two calls were made with the same inputs.
SameInputs(i, j) ==
    /\ fr[i].name = fr[j].name /\ fr[i].layout = fr[j].layout
    /\ fr[i].opt = fr[j].opt
    /\ fr[i].isRW = fr[j].isRW /\ fr[i].req = fr[j].req
    /\ Table(i) = Table(j)

\* Every render of a.html under the layout of call i was called with the
\* function table call i is made with.
SameTable(i) == seen[fr[i].layout] \subseteq {Table(i)}

\* C3: every (layout, content) cache entry is a template object of its
\* own. Whatever a render has written holds text of its own layout file and
\* its own content file only, never of another content file. While the
\* renders of (L, A) are all made with the same function table, a render of
\* (L, A) writes what L composed with A and nothing else writes under that
\* table, whatever (L, B) or another layout was rendered with before it or
\* is being rendered with, with whatever function tables, and whatever was
\* rebuilt: so any two such renders of (L, A) with the same inputs give the
\* same response, byte for byte.
C3_CloneIndependence ==
    /\ \A k1 \in Cached, k2 \in Cached :
         k1 # k2 => tpls[k1[1]][k1[2]] # tpls[k2[1]][k2[2]]
    /\ \A i \in Procs :
         /\ \A k \in 1..Len(fr[i].b) :
               fr[i].b[k].t \in {"fn", "{}"} \union OwnTexts[fr[i].layout, fr[i].name]
         /\ (pc[i] = "done" /\ fr[i].name = N_a /\ SameTable(i)) =>
               /\ Alone[fr[i].layout, N_a, Table(i)].ok
               /\ Wrote(i, "html")
               /\ resp[i].body[1].out = Alone[fr[i].layout, N_a, Table(i)].out
    /\ \A i \in Procs, j \in Procs :
         (/\ pc[i] = "done" /\ pc[j] = "done"
          /\ fr[i].name = N_a /\ SameInputs(i, j) /\ SameTable(i))
             => resp[i] = resp[j]

\* C3 witness: (L, A) has been rendered twice with the same inputs, three
\* renders have been made in all, and the entry of (L, B) has the live
\* function table a render of (L, B) attached to it.
C3_Witness ==
    /\ ~reload /\ calls = 3
    /\ pc[1] = "done" /\ pc[2] = "done"
    /\ fr[1].name = N_a /\ SameInputs(1, 2) /\ SameTable(1)
    /\ Wrote(1, "html") /\ Wrote(2, "html")
    /\ \E f \in DOMAIN noopFuncMap : heap[tpls[fr[1].layout][N_db]].funcs[f] # Noop

\* C4 (as claimed): in Reloading mode a goroutine that executes a template
\* or writes a response, an error response included, does not hold r.mu.
C4_NoLockWhileWriting ==
    reload =>
        \A i \in Procs :
            pc[i] \in {"exec", "executing", "write", "writeTo",
                       "errLayout", "errName", "errExec"}
                => mu # i

\* C5 (as claimed): between a call's own rebuild and its lookup no other
\* call's rebuild runs, not one step of it.
C5_RebuildLookupAtomic ==
    [][\A i \in Procs, j \in Procs :
          (i # j /\ pc[i] \in {"unlock1", "lock2", "lookup"})
              => ~(pc[j] = "parse" /\ (pc'[j] # "parse" \/ rebuild' # rebuild))]_vars

\* The content files written to the directory since New returned.
AddedContent == ContentOnDisk(disk) \ ContentOnDisk(disk0)

\* C6 (as claimed): with reload, the rebuild of the next call makes every
\* content file added since New renderable under every layout; without
\* reload the cache never changes, so such a file stays unknown.
C6_HotReload ==
    [][/\ \A i \in Procs :
            RebuildOk(i) =>
                \A l \in LayoutsOnDisk(disk), p \in AddedContent :
                    l \in DOMAIN tpls' /\ Canonical(p) \in DOMAIN tpls'[l]
       /\ ~reload => tpls' = tpls]_vars

\* C7 (as claimed): after a rebuild that succeeds the cache holds no entry
\* for a layout or content file that is not in the directory.
C7_RebuildDiscards ==
    [][\A i \in Procs : RebuildOk(i) => CacheWithin(disk, tpls')]_vars

\* C8 (as claimed): after a build that succeeds, New's or a rebuild, every
\* .html file outside layouts/ has its entry, under its canonical name,
\* under each layout.
C8_EveryFileCached ==
    /\ NewReturned => CacheCovers(disk, tpls)
    /\ [][\A i \in Procs : RebuildOk(i) => CacheCovers(disk, tpls')]_vars

\* C9 (as claimed): a rebuild that fails leaves the cache the lookups read
\* as it was when the rebuild began: none of the failed build's entries is
\* in it.
C9_NoPartialCache ==
    [][\A i \in Procs : RebuildErr(i) => tpls' = Rebuilt.was]_vars

\* C10 (as claimed): no HTML call panics.
C10_NoPanic == \A i \in Procs : pc[i] # "panicked"


\* The response is a plain-text error response with status 500.
IsTextError(i) ==
    fr[i].isRW => /\ resp[i].status = StatusInternalServerError
                  /\ resp[i].ctype = "text/plain; charset=utf-8"

\* C11 (as claimed): the response to a content name the layout has no
\* entry for has status 500 and a body that names the missing template and
\* lists the content names the cache holds for that layout.
C11_MissingTemplate ==
    [][\A i \in Procs :
         (pc[i] = "errName" /\ pc'[i] = "done") =>
            /\ fr[i].isRW => resp'[i].status = StatusInternalServerError
            /\ Len(resp'[i].body) = 1
            /\ resp'[i].body[1].kind = "no template named"
            /\ resp'[i].body[1].name = fr[i].name
            /\ resp'[i].body[1].defined.templates = DOMAIN tpls[fr[i].layout]]_vars

\* C12: a call whose layout the cache does not hold goes to the error
\* response without executing a template, and that response is a
\* plain-text 500 whose body lists every layout of the cache.
C12_MissingLayout ==
    [][\A i \in Procs :
         /\ (pc[i] = "lookup" /\ fr[i].layout \notin DOMAIN tpls)
               => pc'[i] \in {"lookup", "errLayout"}
         /\ (pc[i] = "errLayout" /\ pc'[i] # "errLayout") =>
               /\ pc'[i] = "done"
               /\ fr'[i].b = <<>>
               /\ fr[i].isRW =>
                     /\ resp'[i].status = StatusInternalServerError
                     /\ resp'[i].ctype = "text/plain; charset=utf-8"
               /\ Len(resp'[i].body) = 1
               /\ resp'[i].body[1].kind = "no layout named"
               /\ resp'[i].body[1].out = <<>>
               /\ resp'[i].body[1].defined.layouts = DOMAIN tpls]_vars

\* C12 witness: a call to an http.ResponseWriter has answered that its
\* layout is unknown, listing the layouts there are.
C12_Witness ==
    /\ Wrote(1, "no layout named") /\ fr[1].isRW /\ fr[1].layout = N_m
    /\ resp[1].body[1].defined.layouts = {DefaultLayout}

\* C13 (as claimed): the body of the unknown-layout response holds the
\* name of the layout that was asked for.
C13_LayoutNamed ==
    \A i \in Procs :
        Wrote(i, "no layout named") =>
            fr[i].layout \in ({resp[i].body[1].name}
                              \union resp[i].body[1].defined.layouts
                              \union resp[i].body[1].defined.templates)

\* The errors ExecuteTemplate returns.
ExecErrors == {"undefined", "no such template", "wrong number of args"}

\* C14: when execution failed, whatever it had written to the buffer, the
\* writer receives nothing of it: nothing at all until the call answers,
\* and then the error text and nothing else, as a plain-text 500.
C14_BufferDiscarded ==
    \A i \in Procs :
        fr[i].err \in ExecErrors =>
            IF pc[i] = "done"
            THEN /\ Len(resp[i].body) = 1
                 /\ resp[i].body[1].kind = fr[i].err
                 /\ resp[i].body[1].out = <<>>
                 /\ IsTextError(i)
            ELSE resp[i].body = <<>>

\* C14 witness: execution to an http.ResponseWriter stopped part way, with
\* output in the buffer, and the call has answered.
C14_Witness ==
    /\ pc[1] = "done" /\ fr[1].isRW
    /\ fr[1].err = "wrong number of args" /\ fr[1].b # <<>>

\* The text an output holds between the results of its function calls.
Texts(out) == SelectSeq(out, LAMBDA a : a.t \notin {"fn", "{}"})

\* What layout l with content n inserted writes when every function is
\* live.
Inserted(l, n) ==
    LET live == [f \in DOMAIN noopFuncMap |-> [fac |-> 1, req |-> 1]]
    IN ExecuteTemplate([Composed(l, n) EXCEPT !.funcs = live], l \o DotHtml).out

\* The status code a call is to answer with: the one given, 200 when none.
WantStatus(i) == IF fr[i].opt = 0 THEN StatusOK ELSE fr[i].opt

\* C15: once execution has succeeded, the content type text/html and the
\* status code are set while the writer has received no byte of the body,
\* and the body then written is the buffer: the layout with the content
\* inserted.
C15_HeaderThenBody ==
    \A i \in Procs :
        /\ pc[i] = "writeTo" =>
              /\ resp[i].body = <<>>
              /\ fr[i].isRW => (resp[i].ctype = "text/html"
                                /\ resp[i].status = WantStatus(i))
        /\ Wrote(i, "html") =>
              /\ fr[i].isRW => (resp[i].ctype = "text/html"
                                /\ resp[i].status = WantStatus(i))
              /\ resp[i].body[1].out = fr[i].b
              /\ Texts(fr[i].b) = Texts(Inserted(fr[i].layout, fr[i].name))

\* C15 witness: a page has been written to an http.ResponseWriter with a
\* status code the caller chose, and another with none chosen.
C15_Witness ==
    /\ Wrote(1, "html") /\ fr[1].isRW /\ fr[1].opt = 0
    /\ Wrote(2, "html") /\ fr[2].isRW /\ fr[2].opt # 0

\* The first registered factory that declares the function f.
FirstFactory(f) ==
    CHOOSE fi \in 1..Len(Factories) :
        f \in Factories[fi] /\ \A fj \in 1..(fi - 1) : f \notin Factories[fj]

\* C16 (as claimed): a call that attached its live tables, with no other
\* call in progress, gets every function result from the first factory
\* that declares the function.
C16_FirstFactoryWins ==
    \A i \in Procs :
        (pc[i] = "write" /\ Live(i) /\ fr[i].solo) =>
            \A a \in LiveAtoms(fr[i].b) : a.fac = FirstFactory(a.fn)

\* C17 (as claimed): with reload disabled no step changes the cache: not
\* the mapping, not a cached template object.
C17_StaticReadOnly ==
    [][~reload =>
         /\ tpls' = tpls
         /\ \A k \in Cached : heap'[tpls[k[1]][k[2]]] = heap[tpls[k[1]][k[2]]]]_vars

\* C18 (as claimed): when New returned a renderer, every file of the
\* directory it was given is a .html file that parses.
C18_FatalConstruction ==
    NewReturned =>
        \A p \in Files :
            IsFile(disk0, p) => (disk0[p] = "good" /\ Ext(p) = DotHtml)

\* The directory holds no layout file.
NoLayoutFiles(d) == \A p \in UnderLayoutsDir : d[p] = "absent"

\* Every file of the directory is a .html file that parses.
WellFormed(d) ==
    \A p \in Files : IsFile(d, p) => (d[p] = "good" /\ Ext(p) = DotHtml)

\* C19 (as claimed): for a well-formed directory without layout files New
\* returns a renderer, and while the directory is as New found it a call
\* for a content file of the directory writes the page.
C19_LayoutsOptional ==
    (NoLayoutFiles(disk0) /\ WellFormed(disk0)) =>
        /\ NewReturned
        /\ \A i \in Procs :
              (pc[i] = "done" /\ diskOps = 0
               /\ \E p \in ContentOnDisk(disk0) : Canonical(p) = fr[i].name)
                 => Wrote(i, "html")

\* C20: a Flashes call returns the flashes added with Flash and not read
\* since, and a Flashes call that follows another on the same request with
\* no Flash in between returns an empty map.
C20_FlashesDestructive ==
    [][(sess'.ops = sess.ops + 1 /\ sess'.log # <<>>
        /\ sess'.log[Len(sess'.log)].op = "Flashes") =>
          /\ sess'.log[Len(sess'.log)].val = sess.pending
          /\ (sess.log # <<>> /\ sess.log[Len(sess.log)].op = "Flashes")
                => DOMAIN sess'.log[Len(sess'.log)].val = {}]_vars

\* C20 witness: two flashes were added, the first Flashes call returned
\* both and the next returned none.
C20_Witness ==
    /\ Len(sess.log) = 4
    /\ sess.log[1].op = "Flash" /\ sess.log[2].op = "Flash"
    /\ sess.log[3].op = "Flashes" /\ DOMAIN sess.log[3].val = FlashKeys
    /\ sess.log[4].op = "Flashes" /\ DOMAIN sess.log[4].val = {}

\* The call a step of the session made: the entry it added to the log.
SessionCall == sess'.ops = sess.ops + 1 /\ Len(sess'.log) = Len(sess.log) + 1

LastCall(q) == q.log[Len(q.log)]

\* The keys set on the request so far and not deleted or reset since, with
\* their latest values.
RECURSIVE SetSoFar(_)
SetSoFar(log) ==
    IF log = <<>> THEN EmptySet
    ELSE LET e == log[Len(log)]
             before == SetSoFar(SubSeq(log, 1, Len(log) - 1))
         IN CASE e.op = "Set" -> Override(before, (e.key :> e.val))
              [] e.op = "Delete" -> [k \in (DOMAIN before) \ {e.key} |-> before[k]]
              [] e.op = "Reset" -> EmptySet
              [] OTHER -> before

\* C21: after Set(w, r, k, v), Get(r, k) on the same request returns v, List(r)
\* holds every key set so far with its latest value, and each Set adds a
\* Set-Cookie header whose session holds v under k.
C21_SetGetList ==
    [][SessionCall =>
         LET e == LastCall(sess')
             set == SetSoFar(sess.log)
         IN /\ (e.op = "Get" /\ e.key \in DOMAIN set) => e.val = set[e.key]
            /\ e.op = "List" =>
                  \A k \in DOMAIN set : k \in DOMAIN e.val /\ e.val[k] = set[k]
            /\ e.op = "Set" =>
                  /\ Len(sess'.setCookies) = Len(sess.setCookies) + 1
                  /\ MapGet(Decode(sess'.setCookies[Len(sess'.setCookies)]).ss.Data,
                            e.key) = e.val]_vars

\* C22: Delete(w, r, k) returns the value stored under k and removes it: a Get
\* or a Delete of k that follows it on the request returns nil.
C22_DeleteRemoves ==
    [][SessionCall =>
         LET e == LastCall(sess')
         IN /\ e.op = "Delete" =>
                  /\ e.val = MapGet(fromReq(sess).Data, e.key)
                  /\ e.key \in DOMAIN SetSoFar(sess.log)
                        => e.val = SetSoFar(sess.log)[e.key]
                  /\ MapGet(fromReq(sess').Data, e.key) = Nil
            /\ (e.op \in {"Get", "Delete"} /\ sess.log # <<>>
                /\ LastCall(sess).op = "Delete" /\ LastCall(sess).key = e.key)
                  => e.val = Nil]_vars

\* C22 witness: a key was set, Delete returned its value, and the Get and the
\* second Delete that followed returned nil.
C22_Witness ==
    /\ Len(sess.log) = 4
    /\ \A k \in 1..4 : sess.log[k].key = "key"
    /\ sess.log[1].op = "Set" /\ sess.log[1].val = "value1"
    /\ sess.log[2].op = "Delete" /\ sess.log[2].val = "value1"
    /\ sess.log[3].op = "Get" /\ sess.log[3].val = Nil
    /\ sess.log[4].op = "Delete" /\ sess.log[4].val = Nil

\* C23: the session obtained from a request has neither map nil, whatever
\* cookie the request carries, and no Set or Flash writes to a nil map.
C23_NeverNilMap ==
    /\ ~fromReq(sess).Data.isNil
    /\ ~fromReq(sess).Flashes.isNil
    /\ \A k \in 1..Len(sess.log) : sess.log[k].op # "panic"

\* C23 witness: a request whose cookie does not decode has had a Set and
\* then a Flash, and its session holds what they wrote.
C23_Witness ==
    /\ sess.cookie.present /\ ~sess.cookie.val.signed
    /\ Len(sess.log) = 2 /\ sess.log[1].op = "Set" /\ sess.log[2].op = "Flash"
    /\ "key" \in DOMAIN fromReq(sess).Data.kv
    /\ "flash1" \in DOMAIN fromReq(sess).Flashes.kv

\* C24: Context.Render hands the renderer the data argument's value for
\* every key of the data argument, and the request-scoped value for every
\* key only the values hold.
C24_DataTakesPrecedence ==
    [][cx'.renders = cx.renders + 1 =>
         LET v == cx.values.kv
             d == cx'.data.kv
             p == cx'.passed.kv
         IN \A k \in ValueKeys :
              /\ k \in DOMAIN d => (k \in DOMAIN p /\ p[k] = d[k])
              /\ k \in (DOMAIN v) \ (DOMAIN d) => (k \in DOMAIN p /\ p[k] = v[k])
              /\ k \in DOMAIN p => k \in (DOMAIN v) \union (DOMAIN d)]_vars

\* The order the claim gives for middleware m1, ..., mk: the code before
\* the handler of m1, ..., mk, the handler, the code after it of mk, ..., m1.
OutermostFirst(ms) ==
    [i \in 1..(2 * Len(ms) + 1) |->
        IF i <= Len(ms) THEN Event(ms[i], "before")
        ELSE IF i = Len(ms) + 1 THEN Event("", "handler")
        ELSE Event(ms[2 * Len(ms) + 2 - i], "after")]

\* C25: on every request the middleware registered so far runs outermost
\* first around the handler, each once, and the handler of the route is
\* left as it was registered.
C25_MiddlewareOrder ==
    /\ app.requests > 0 => app.trace = OutermostFirst(app.served)
    /\ app.route = BareHandler

\* C25 witness: a second request was served with two different middleware
\* registered.
C25_Witness ==
    /\ app.requests = 2
    /\ app.served = <<"m1", "m2">>
    /\ app.trace = <<Event("m1", "before"), Event("m2", "before"),
                     Event("", "handler"),
                     Event("m2", "after"), Event("m1", "after")>>

\* The key the claim gives: SECRET when it is set, else the contents of
\* master.key when the file exists, else a newly generated key.
KeyByPrecedence(o) ==
    IF o.given # "" THEN {o.given}
    ELSE IF o.SECRET # "" THEN {o.SECRET}
    ELSE IF o.file0 # "" THEN {o.file0}
    ELSE RandomKeys

\* C30: after setDefaults the signing key is the one the precedence gives, a
\* generated key is the contents of master.key, and when no SigningKey was
\* given master.key exists.
C30_MasterKeyPrecedence ==
    option.set =>
      /\ option.SigningKey \in KeyByPrecedence(option)
      /\ option.SigningKey \in RandomKeys => option.file = option.SigningKey
      /\ option.given = "" => option.file # ""

\* Whether the body of a request is a source of parameters: Params reads the
\* body of a POST, PUT, PATCH or DELETE request, as JSON or as a form.
BodySupplies(r) ==
    /\ r.method \in {"POST", "PUT", "PATCH", "DELETE"}
    /\ r.ctype # ""
    /\ r.body # Absent

\* C26 (as claimed): Params decodes for a parameter the value its path
\* gives when the path gives one, else the one the body gives when the body
\* gives one, else the one the URL query gives.
C26_ParamsPrecedence ==
    hd.op = "Params" =>
      /\ hd.err = ""
      /\ hd.name = IF hd.r.path # Absent THEN hd.r.path
                   ELSE IF BodySupplies(hd.r) THEN hd.r.body
                   ELSE hd.r.query

\* The idempotent request methods (RFC 7231, section 4.2.2).
Idempotent == {"GET", "HEAD", "PUT", "DELETE", "OPTIONS", "TRACE"}

\* C27: Redirect answers an idempotent request method with 302 Found and
\* every other method with 303 See Other.
C27_RedirectCode ==
    hd.op = "Redirect" =>
      hd.code = IF hd.r.method \in Idempotent THEN StatusFound ELSE StatusSeeOther

\* C28: the response to a POST request with the Turbolinks-Referrer header
\* whose handler sets a Location header has status 200, Content-Type
\* text/javascript, no Location header, and the Turbolinks.visit script for
\* the escaped location as its whole body.
C28_FormSubmission ==
    (tl.n > 0 /\ tl.r.method = "POST" /\ tl.r.turbolinks
     /\ tl.r.h.loc # NoLocation) =>
       /\ tl.w.code = StatusOK
       /\ tl.w.sent.ctype = "text/javascript"
       /\ tl.w.sent.location = NoLocation
       /\ tl.w.body = <<Chunk("js", JSEscapeString(tl.r.h.loc))>>

\* The status a handler answers with when it redirects.
HandlerStatus(r) ==
    IF r.h.kind = "created" THEN StatusCreated ELSE Redirect(r.method)

Expires(cookie) == cookie.maxAge < 0

InSeq(x, seq) == \E i \in 1..Len(seq) : seq[i] = x

\* C29: a request with the Turbolinks-Referrer header that is not a POST
\* and is answered with a redirect to X keeps the handler's status and sets
\* the _turbolinks_location cookie to X in the header that is sent; such a
\* request that carries the cookie is answered with Turbolinks-Location: X
\* and a Set-Cookie that expires the cookie; and after that answer the
\* browser no longer sends the cookie, unless the answer was itself a
\* redirect.
C29_RedirectHandOff ==
    (tl.n > 0 /\ tl.r.turbolinks /\ tl.r.method # "POST" /\ ~tl.w.panicked) =>
       /\ tl.r.h.loc # NoLocation =>
             /\ tl.w.code = HandlerStatus(tl.r)
             /\ InSeq(Cookie(tl.r.h.loc, <<"/">>, 0), tl.w.sent.setCookies)
       /\ tl.r.cookie # NoLocation =>
             /\ tl.w.sent.tlLocation = tl.r.cookie
             /\ \E i \in 1..Len(tl.w.sent.setCookies) :
                   Expires(tl.w.sent.setCookies[i])
             /\ tl.r.h.loc = NoLocation =>
                   \A url \in URLs : CookieFor(tl.jar, url) = NoLocation

\* ------------------------------------------------------------ package values

\* What the calls logged so far have left in bag v: the keys it was given
\* with Set and not Delete since, with their latest values.
RECURSIVE BagSoFar(_, _)
BagSoFar(log, v) ==
    IF log = <<>> THEN EmptySet
    ELSE LET c == log[Len(log)]
             before == BagSoFar(SubSeq(log, 1, Len(log) - 1), v)
         IN CASE c.bag = v /\ c.op = "Set" -> Override(before, (c.key :> c.val))
              [] c.bag = v /\ c.op = "Delete" ->
                    [k \in (DOMAIN before) \ {c.key} |-> before[k]]
              [] OTHER -> before

LastValuesCall == vb.log[Len(vb.log)]

\* C31: on a value bag, Get(k) returns the value of the latest Set(k, v),
\* List holds exactly the keys set and not deleted since, and after
\* Delete(k) the key is not in List.
C31_ValueBag ==
    \A v \in DOMAIN vb.bags :
       LET kept == BagSoFar(vb.log, v)
       IN /\ values(vb.bags[v]).kv = kept
          /\ (LastValuesCall.bag = v /\ LastValuesCall.op = "Get") =>
                LastValuesCall.val =
                   (IF LastValuesCall.key \in DOMAIN kept
                    THEN kept[LastValuesCall.key] ELSE Nil)
          /\ (LastValuesCall.bag = v /\ LastValuesCall.op = "List") =>
                LastValuesCall.val = kept
          /\ (LastValuesCall.bag = v /\ LastValuesCall.op = "Delete") =>
                LastValuesCall.key \notin DOMAIN values(vb.bags[v]).kv

\* C31: a bag that was given two keys has just had one of them deleted and
\* lists the other.
C31_Witness ==
    /\ vb.log # <<>>
    /\ LastValuesCall.op = "Delete"
    /\ \E i \in 1..Len(vb.log) :
          /\ vb.log[i].op = "Set"
          /\ vb.log[i].bag = LastValuesCall.bag
          /\ vb.log[i].key = LastValuesCall.key
    /\ DOMAIN vb.bags[LastValuesCall.bag].kv = ValueKeys \ {LastValuesCall.key}

\* C38: a bag made from the request after Set(k, v) on another bag of the
\* request, with no Set or Delete of k since, lists k with v.
C38_VisibleToLaterBags ==
    \A i \in 1..Len(vb.log), j \in 1..Len(vb.log) :
       (/\ i < j
        /\ vb.log[i].op = "Set"
        /\ vb.log[j].op = "New"
        /\ \A n \in (i + 1)..Len(vb.log) :
              vb.log[n].op \in {"Set", "Delete"} => vb.log[n].key # vb.log[i].key) =>
          LET later == values(vb.bags[vb.log[j].bag]).kv
          IN /\ vb.log[i].key \in DOMAIN later
             /\ later[vb.log[i].key] = vb.log[i].val

\* C37: a Render call leaves the request-scoped values as they were: the
\* values list the same keys with the same values after it as before it.
C37_RenderKeepsValues ==
    [][cx'.renders = cx.renders + 1 => cx'.values.kv = cx.values.kv]_vars

\* ------------------------------------------------------------- package render

\* C32: the response to a content name the layout has no entry for has the
\* status code of the render options, 200 when none is given, and a body
\* that names the missing template.
C32_MissingTemplateStatus ==
    [][\A i \in Procs :
         (pc[i] = "errName" /\ pc'[i] = "done") =>
            /\ fr[i].isRW =>
                  resp'[i].status = (IF fr[i].opt = 0 THEN StatusOK ELSE fr[i].opt)
            /\ Len(resp'[i].body) = 1
            /\ resp'[i].body[1].name = fr[i].name]_vars

\* C33: an HTML call that returns, by whatever path (unknown layout,
\* missing template, execution error, success), does not hold the mutex
\* when it returns.
C33_MutexReleased ==
    [][\A i \in Procs : (pc[i] # "done" /\ pc'[i] = "done") => mu' # i]_vars

\* The steps of call i that read r.tpls: the lookups of lines 270 and 277
\* and the DefinedTemplates calls of lines 273, 283 and 310.
ReadsCache(i) ==
    \/ pc[i] \in {"lookup", "errLayout", "errName", "errExec"}
          /\ pc'[i] \notin {pc[i], "crashed"}
    \/ RaceFatal(i)

\* C34: in Reloading mode a call reads the cache only while it holds the
\* mutex, so never while another call, having locked it, is rebuilding the
\* cache.
C34_ReadsUnderMutex ==
    [][\A i \in Procs :
         (reload /\ ReadsCache(i)) =>
            /\ mu = i
            /\ \A j \in Procs \ {i} : pc[j] # "parse"]_vars

\* C35: every layout of the cache maps the same set of content names.
C35_CrossProduct ==
    NewReturned =>
       \A l1 \in DOMAIN tpls, l2 \in DOMAIN tpls : DOMAIN tpls[l1] = DOMAIN tpls[l2]

\* C36: the buffer of a call is empty when its execution starts and holds
\* after each step of it exactly what the execution has written so far, and
\* that is what WriteTo writes to the writer, whatever
\* bytes the buffer held when it was put in the pool; no two calls in
\* progress have the same buffer, and no buffer in use is in the pool.
C36_OwnBuffer ==
    [][\A i \in Procs :
         /\ Executes(i) =>
               /\ pc[i] = "exec" => fr[i].b = <<>>
               /\ fr'[i].b = fr[i].b \o StepOf(i, heap[fr[i].tpl]).out
         /\ (pc[i] = "writeTo" /\ pc'[i] = "done") =>
               /\ Len(resp'[i].body) = Len(resp[i].body) + 1
               /\ resp'[i].body[Len(resp'[i].body)].out = fr[i].b
         /\ fr'[i].buf # 0 =>
               /\ fr'[i].buf \notin bp'.free
               /\ \A j \in Procs \ {i} : fr'[j].buf # fr'[i].buf]_vars

\* C36 witness: a call has written its page from a buffer that came out of
\* the pool, where a render that failed in mid-execution had put it with
\* bytes in it.
C36_Witness ==
    \E i \in Procs :
       /\ pc[i] = "done" /\ fr[i].drained
       /\ fr[i].b # <<>>
       /\ bp.left[fr[i].buf] # <<>>

\* ---------------------------------------------------------------- session

\* The calls that save the session.
Saving == {"Set", "Delete", "Flash", "Flashes", "Reset"}

\* C39: once a request has had a Set, Delete, Flash, Flashes or Reset call,
\* the last session Set-Cookie header of its response decodes to the Data
\* and the Flashes that Get, List and Flashes read on the request.
C39_CookieIsSession ==
    (\E n \in 1..Len(sess.log) : sess.log[n].op \in Saving) =>
       /\ sess.setCookies # <<>>
       /\ LET sent == Decode(sess.setCookies[Len(sess.setCookies)]).ss
          IN /\ sent.Data.kv = fromReq(sess).Data.kv
             /\ sent.Flashes.kv = fromReq(sess).Flashes.kv

\* ------------------------------------------------- package server (Turbolinks)

\* C40: a request with Turbolinks-Referrer whose handler writes a body and
\* never calls WriteHeader is answered as the handler alone would answer
\* it: status 200 and the handler's body.
C40_ImplicitStatus ==
    (tl.n > 0 /\ tl.r.turbolinks /\ tl.r.h.kind = "plain") =>
       LET alone == ServeHTTP(tl.r.h, Direct(NewWriter), tl.r).w
       IN /\ ~tl.w.panicked
          /\ tl.w.code = StatusOK
          /\ tl.w.code = alone.code
          /\ tl.w.body = alone.body

====
